---- MODULE Spec2Model ----
(***************************************************************************)
(* Model of the package infounit (github.com/tunabay/go-infounit): the     *)
(* value types BitCount and ByteCount (uint64), their conversions, their   *)
(* derived-quantity arithmetic (CalcTime, CalcBitRate), the formatter      *)
(* prefix.formatUint and the scanner (Scan / Parse... / UnmarshalText).    *)
(*                                                                         *)
(* Numbers.  TLC's integers are 32 bits wide, the program's are 64 bits    *)
(* wide (uint64, int64) or IEEE-754 doubles (float64).  A uint64 is        *)
(* therefore held as its sequence of base-256 digits, least significant    *)
(* first and without leading zero digits (so 0 is <<>> and equality of     *)
(* numbers is equality of sequences), and a float64 as sign, 53-bit        *)
(* significand and binary exponent, every operation rounding to nearest,   *)
(* ties to even, exactly as the hardware does.                             *)
(*                                                                         *)
(* Text.  A Go string is held as the sequence of its characters.           *)
(***************************************************************************)
EXTENDS Integers, Sequences, FiniteSets, TLC

(***************************************************************************)
(* Unsigned integers of arbitrary width (the carrier of uint64 values and  *)
(* of the exact intermediate results of float64 operations).               *)
(***************************************************************************)
Base == 16 * 16

\* e, with v evaluated first: TLC evaluates the arguments of an operator on
\* demand, and a recursion that hands a pending computation down at every
\* level evaluates them all, nested, at the last one
Strict(v, e) == IF v = v THEN e ELSE e

Limb(a, i) == IF i <= Len(a) THEN a[i] ELSE 0

Zeros(n) == [i \in 1..n |-> 0]

RECURSIVE Norm(_)
Norm(a) ==
  IF a = <<>> THEN a
  ELSE IF a[Len(a)] = 0 THEN Norm(SubSeq(a, 1, Len(a) - 1))
  ELSE a

RECURSIVE NatOf(_)
NatOf(n) == IF n = 0 THEN <<>> ELSE <<n % Base>> \o NatOf(n \div Base)

RECURSIVE IntOf(_)
IntOf(a) == IF a = <<>> THEN 0 ELSE a[1] + Base * IntOf(Tail(a))

RECURSIVE AddFrom(_, _, _, _)
AddFrom(a, b, i, c) ==
  IF i > Len(a) /\ i > Len(b) THEN NatOf(c)
  ELSE LET s == Limb(a, i) + Limb(b, i) + c
       IN  <<s % Base>> \o AddFrom(a, b, i + 1, s \div Base)

NAdd(a, b) == AddFrom(a, b, 1, 0)

RECURSIVE SubFrom(_, _, _, _)
SubFrom(a, b, i, br) ==
  IF i > Len(a) THEN <<>>
  ELSE LET s == a[i] - Limb(b, i) - br
       IN  <<(s + Base) % Base>> \o SubFrom(a, b, i + 1, IF s < 0 THEN 1 ELSE 0)

\* a - b for a >= b
NSub(a, b) == Norm(SubFrom(a, b, 1, 0))

RECURSIVE CmpFrom(_, _, _)
CmpFrom(a, b, i) ==
  IF i = 0 THEN 0
  ELSE IF a[i] < b[i] THEN -1
  ELSE IF a[i] > b[i] THEN 1
  ELSE CmpFrom(a, b, i - 1)

\* -1, 0, 1 as a < b, a = b, a > b
NCmp(a, b) ==
  IF Len(a) < Len(b) THEN -1
  ELSE IF Len(a) > Len(b) THEN 1
  ELSE CmpFrom(a, b, Len(a))

NLe(a, b) == NCmp(a, b) <= 0
NLt(a, b) == NCmp(a, b) < 0

RECURSIVE MulSmallFrom(_, _, _, _)
MulSmallFrom(a, k, i, c) ==
  IF i > Len(a) THEN NatOf(c)
  ELSE LET s == a[i] * k + c
       IN  <<s % Base>> \o MulSmallFrom(a, k, i + 1, s \div Base)

\* a * k for a machine-small k (k < 2^22)
NMulSmall(a, k) == IF k = 0 \/ a = <<>> THEN <<>> ELSE MulSmallFrom(a, k, 1, 0)

RECURSIVE MulFrom(_, _, _)
MulFrom(a, b, i) ==
  IF i > Len(b) THEN <<>>
  ELSE IF b[i] = 0 THEN MulFrom(a, b, i + 1)
  ELSE NAdd(Zeros(i - 1) \o NMulSmall(a, b[i]), MulFrom(a, b, i + 1))

NMul(a, b) == IF a = <<>> \/ b = <<>> THEN <<>> ELSE MulFrom(a, b, 1)

\* long division by a machine-small k, from digit i down, the quotient
\* digits found so far in q
RECURSIVE DivSmallFrom(_, _, _, _, _)
DivSmallFrom(a, k, i, rem, q) ==
  IF i = 0 THEN [q |-> Norm(q), r |-> rem]
  ELSE Strict(rem, Strict(q,
         DivSmallFrom(a, k, i - 1, (rem * Base + a[i]) % k,
                      <<(rem * Base + a[i]) \div k>> \o q)))

\* quotient (a number) and remainder (a machine integer) of a by small k
NDivSmall(a, k) == DivSmallFrom(a, k, Len(a), 0, <<>>)

RECURSIVE QDigit(_, _, _, _)
QDigit(cur, b, lo, hi) ==
  IF lo = hi THEN lo
  ELSE IF NLe(NMulSmall(b, (lo + hi + 1) \div 2), cur)
       THEN QDigit(cur, b, (lo + hi + 1) \div 2, hi)
       ELSE QDigit(cur, b, lo, (lo + hi + 1) \div 2 - 1)

\* long division by b, from digit i down
RECURSIVE DivFrom(_, _, _, _, _)
RECURSIVE DivDigit(_, _, _, _, _, _)
DivFrom(a, b, i, rem, q) ==
  IF i = 0 THEN [q |-> Norm(q), r |-> rem]
  ELSE DivDigit(a, b, i, Norm(<<a[i]>> \o rem),
                QDigit(Norm(<<a[i]>> \o rem), b, 0, Base - 1), q)

DivDigit(a, b, i, cur, d, q) ==
  Strict(d, Strict(q, DivFrom(a, b, i - 1, NSub(cur, NMulSmall(b, d)), <<d>> \o q)))

\* a quotient and machine remainder with the remainder as a number
NatRem(d) == [q |-> d.q, r |-> NatOf(d.r)]

\* quotient and remainder of a by b, b > 0
NDivMod(a, b) ==
  IF Len(b) < 3 THEN NatRem(NDivSmall(a, IntOf(b)))
  ELSE DivFrom(a, b, Len(a), <<>>, <<>>)

\* the number of zero digits at the low end of a, a > 0
RECURSIVE LowZeros(_, _)
LowZeros(a, i) == IF a[i] # 0 THEN i - 1 ELSE LowZeros(a, i + 1)

\* a * 2^n
NShl(a, n) ==
  IF a = <<>> THEN <<>> ELSE Zeros(n \div 8) \o NMulSmall(a, 2 ^ (n % 8))

\* a \div 2^n
NShr(a, n) ==
  IF n \div 8 >= Len(a) THEN <<>>
  ELSE NDivSmall(SubSeq(a, n \div 8 + 1, Len(a)), 2 ^ (n % 8)).q

\* a % 2^n
NLow(a, n) ==
  LET k == n \div 8
  IN  IF k >= Len(a) THEN a
      ELSE Norm(SubSeq(a, 1, k) \o <<a[k + 1] % (2 ^ (n % 8))>>)

RECURSIVE SmallBitLen(_)
SmallBitLen(n) == IF n = 0 THEN 0 ELSE 1 + SmallBitLen(n \div 2)

\* number of binary digits of a
NBitLen(a) == IF a = <<>> THEN 0 ELSE 8 * (Len(a) - 1) + SmallBitLen(a[Len(a)])

NIsOdd(a) == a # <<>> /\ a[1] % 2 = 1

RECURSIVE NPow(_, _)
NPow(k, n) == IF n = 0 THEN <<1>> ELSE NMulSmall(NPow(k, n - 1), k)

One == <<1>>

(***************************************************************************)
(* float64.  A value is [cls, neg, m, e]: cls is "fin", "inf" or "nan"; a  *)
(* finite value is (-1)^neg * m * 2^e with m a 53-bit significand (fewer   *)
(* bits only for the subnormals, e = MinExp), and zero is m = <<>>, e = 0. *)
(***************************************************************************)
MantBits == 53

MinExp == -1074

MaxExp == 971

FZero(neg) == [cls |-> "fin", neg |-> neg, m |-> <<>>, e |-> 0]

FInf(neg) == [cls |-> "inf", neg |-> neg, m |-> <<>>, e |-> 0]

FNaN == [cls |-> "nan", neg |-> FALSE, m |-> <<>>, e |-> 0]

FIsZero(a) == a.cls = "fin" /\ a.m = <<>>

\* (-1)^neg * m * 2^e for a significand of at most MantBits bits
FPack(neg, m, e) ==
  IF m = <<>> THEN FZero(neg)
  ELSE IF e > MaxExp THEN FInf(neg)
  ELSE [cls |-> "fin", neg |-> neg, m |-> m, e |-> e]

\* a significand that rounding up has carried into one more bit
FCarry(neg, m, e) ==
  IF NBitLen(m) > MantBits THEN FPack(neg, NShr(m, 1), e + 1) ELSE FPack(neg, m, e)

\* the kept bits m rounded by the order c of the lost bits against one
\* half and by whether anything lies below them (nearest, ties to even)
FNearest(neg, m, c, below, e) ==
  FCarry(neg, IF c > 0 \/ (c = 0 /\ (below \/ NIsOdd(m))) THEN NAdd(m, One) ELSE m, e)

\* q * 2^(e - t) with the low t bits of q rounded away
FCut(neg, q, below, t, e) ==
  FNearest(neg, NShr(q, t), NCmp(NLow(q, t), NShl(One, t - 1)), below, e)

\* q * 2^e for a q of MantBits + t0 bits: more bits are cut from a subnormal
FQuotBits(neg, q, below, e, t0) ==
  IF e + t0 < MinExp THEN FCut(neg, q, below, MinExp - e, MinExp)
  ELSE FCut(neg, q, below, t0, e + t0)

FQuot(neg, qr, e) == FQuotBits(neg, qr.q, qr.r # <<>>, e, NBitLen(qr.q) - MantBits)

\* (n / d) * 2^e with n or d shifted by s places, for a quotient of
\* MantBits + 1 or MantBits + 2 bits
FScaled(neg, n, d, e, s) ==
  FQuot(neg,
        IF s < 0 THEN NDivMod(n, NShl(d, 0 - s))
        ELSE IF d = One THEN [q |-> NShl(n, s), r |-> <<>>]
        ELSE NDivMod(NShl(n, s), d),
        e - s)

FStripped(neg, n, d, e) ==
  FScaled(neg, n, d, e, MantBits + 1 - (NBitLen(n) - NBitLen(d)))

\* (-1)^neg * (n / d) * 2^e, correctly rounded (nearest, ties to even);
\* powers of 256 in the divisor go to the exponent
FRound(neg, n, d, e) ==
  IF n = <<>> THEN FZero(neg)
  ELSE FStripped(neg, n, SubSeq(d, LowZeros(d, 1) + 1, Len(d)), e - 8 * LowZeros(d, 1))

\* float64(v) for an unsigned integer v
FFromNat(v) == FRound(FALSE, v, One, 0)

FNeg(a) == IF a.cls = "nan" THEN a ELSE [a EXCEPT !.neg = ~a.neg]

FMul(a, b) ==
  IF a.cls = "nan" \/ b.cls = "nan" THEN FNaN
  ELSE IF a.cls = "inf" \/ b.cls = "inf"
       THEN IF FIsZero(a) \/ FIsZero(b) THEN FNaN ELSE FInf(a.neg # b.neg)
  ELSE FRound(a.neg # b.neg, NMul(a.m, b.m), One, a.e + b.e)

FDiv(a, b) ==
  IF a.cls = "nan" \/ b.cls = "nan" THEN FNaN
  ELSE IF a.cls = "inf"
       THEN IF b.cls = "inf" THEN FNaN ELSE FInf(a.neg # b.neg)
  ELSE IF b.cls = "inf" THEN FZero(a.neg # b.neg)
  ELSE IF FIsZero(b)
       THEN IF FIsZero(a) THEN FNaN ELSE FInf(a.neg # b.neg)
  ELSE FRound(a.neg # b.neg, a.m, b.m, a.e - b.e)

\* order of the magnitudes of two finite values: -1, 0, 1
FCmpMag(a, b) ==
  IF a.m = <<>> THEN (IF b.m = <<>> THEN 0 ELSE -1)
  ELSE IF b.m = <<>> THEN 1
  ELSE IF a.e < b.e THEN -1
  ELSE IF a.e > b.e THEN 1
  ELSE NCmp(a.m, b.m)

\* the sum of the magnitudes am and bm, both in units of 2^lo, with signs
FAddMag(aneg, bneg, am, bm, lo) ==
  IF aneg = bneg THEN FRound(aneg, NAdd(am, bm), One, lo)
  ELSE IF NCmp(am, bm) = 0 THEN FZero(FALSE)
  ELSE IF NCmp(am, bm) > 0 THEN FRound(aneg, NSub(am, bm), One, lo)
  ELSE FRound(bneg, NSub(bm, am), One, lo)

FAddAt(a, b, lo) == FAddMag(a.neg, b.neg, NShl(a.m, a.e - lo), NShl(b.m, b.e - lo), lo)

FAddFinite(a, b) == FAddAt(a, b, IF a.e < b.e THEN a.e ELSE b.e)

FAdd(a, b) ==
  IF a.cls = "nan" \/ b.cls = "nan" THEN FNaN
  ELSE IF a.cls = "inf"
       THEN IF b.cls = "inf" /\ a.neg # b.neg THEN FNaN ELSE a
  ELSE IF b.cls = "inf" THEN b
  ELSE IF a.m = <<>> /\ b.m = <<>> THEN FZero(a.neg /\ b.neg)
  ELSE IF a.m = <<>> THEN b
  ELSE IF b.m = <<>> THEN a
  ELSE \* an operand more than 64 binary places below the other only
       \* decides the direction of rounding: one unit, 64 places down
       FAddFinite(IF b.e - a.e > 64 THEN [a EXCEPT !.m = One, !.e = b.e - 64] ELSE a,
                  IF a.e - b.e > 64 THEN [b EXCEPT !.m = One, !.e = a.e - 64] ELSE b)

\* a < b as the hardware compares (false when either is NaN)
FLt(a, b) ==
  IF a.cls = "nan" \/ b.cls = "nan" THEN FALSE
  ELSE IF a.cls = "inf" THEN a.neg /\ ~(b.cls = "inf" /\ b.neg)
  ELSE IF b.cls = "inf" THEN ~b.neg
  ELSE IF FIsZero(a) /\ FIsZero(b) THEN FALSE
  ELSE IF a.neg /\ ~b.neg THEN TRUE
  ELSE IF ~a.neg /\ b.neg THEN FALSE
  ELSE IF a.neg THEN FCmpMag(a, b) > 0
  ELSE FCmpMag(a, b) < 0

\* integer part of the magnitude of a finite value
FTruncMag(a) ==
  IF a.m = <<>> THEN <<>>
  ELSE IF a.e >= 0 THEN NShl(a.m, a.e)
  ELSE NShr(a.m, 0 - a.e)

\* math.Round: nearest integer, halves away from zero
MathRound(a) ==
  IF a.cls # "fin" \/ a.m = <<>> \/ a.e >= 0 THEN a
  ELSE LET ip   == NShr(a.m, 0 - a.e)
           frac == NLow(a.m, 0 - a.e)
           up   == NCmp(frac, NShl(One, 0 - a.e - 1)) >= 0
       IN  FRound(a.neg, IF up THEN NAdd(ip, One) ELSE ip, One, 0)

(***************************************************************************)
(* Text: characters, and the strconv conversions the package uses.         *)
(***************************************************************************)
DigitChars == <<"0", "1", "2", "3", "4", "5", "6", "7", "8", "9">>

LowerChars ==
  <<"a", "b", "c", "d", "e", "f", "g", "h", "i", "j", "k", "l", "m",
    "n", "o", "p", "q", "r", "s", "t", "u", "v", "w", "x", "y", "z">>

UpperChars ==
  <<"A", "B", "C", "D", "E", "F", "G", "H", "I", "J", "K", "L", "M",
    "N", "O", "P", "Q", "R", "S", "T", "U", "V", "W", "X", "Y", "Z">>

Range(f) == {f[i] : i \in DOMAIN f}

DigitVal(c) == (CHOOSE i \in 1..10 : DigitChars[i] = c) - 1

\* case folding of the flag (?i)
LowerChar(c) ==
  IF c \in Range(UpperChars)
  THEN LowerChars[CHOOSE i \in 1..26 : UpperChars[i] = c]
  ELSE c

ToLower(s) == [i \in 1..Len(s) |-> LowerChar(s[i])]

HasPrefix(s, p) == Len(p) <= Len(s) /\ SubSeq(s, 1, Len(p)) = p

HasSuffix(s, p) == Len(p) <= Len(s) /\ SubSeq(s, Len(s) - Len(p) + 1, Len(s)) = p

DigitSet == Range(DigitChars)

LetterSet == Range(LowerChars) \cup Range(UpperChars)

\* length of the longest run of characters of the set cs in s from position i
RECURSIVE RunLen(_, _, _)
RunLen(s, i, cs) ==
  IF i > Len(s) \/ s[i] \notin cs THEN 0 ELSE 1 + RunLen(s, i + 1, cs)

\* the decimal digits of v > 0, found by repeated division by 10
RECURSIVE DecFrom(_)
RECURSIVE DecStep(_)
DecFrom(v) == IF v = <<>> THEN <<>> ELSE DecStep(NDivSmall(v, 10))

DecStep(d) == Append(DecFrom(d.q), DigitChars[d.r + 1])

\* strconv.FormatUint(v, 10), also the verb %d
FormatUint(v) == IF v = <<>> THEN <<"0">> ELSE DecFrom(v)

RECURSIVE DecVal(_, _)
DecVal(s, i) ==
  IF i = 0 THEN <<>>
  ELSE NAdd(NMulSmall(DecVal(s, i - 1), 10), NatOf(DigitVal(s[i])))

\* the number a string of decimal digits denotes
DecimalOf(s) == DecVal(s, Len(s))

MaxUint64 == NSub(NShl(One, 64), One)

\* uint64 arithmetic keeps the low 64 bits
U64(a) == NLow(a, 64)

\* strconv.ParseUint(s, 10, 64) for a string of digits: the value, or a
\* range error when it does not fit 64 bits
ParseUint(s) ==
  LET v == DecimalOf(s)
  IN  IF NLe(v, MaxUint64) THEN [err |-> FALSE, val |-> v]
      ELSE [err |-> TRUE, val |-> MaxUint64]

\* strconv.ParseFloat(s, 64) for "digits", "digits.digits" or ".digits":
\* the double nearest to the decimal
ParseFloat(s) ==
  LET ni == RunLen(s, 1, DigitSet)
      nf == IF ni < Len(s) THEN Len(s) - ni - 1 ELSE 0
      ds == SubSeq(s, 1, ni) \o SubSeq(s, ni + 2, Len(s))
  IN  FRound(FALSE, DecimalOf(ds), NPow(10, nf), 0)

\* the digits d of a number of 10^-prec, with the decimal point set
FormatPoint(d, prec) ==
  IF prec = 0 THEN d
  ELSE SubSeq(d, 1, Len(d) - prec) \o <<".">> \o SubSeq(d, Len(d) - prec + 1, Len(d))

\* at least one digit before the point
FormatPadded(d, prec) ==
  FormatPoint(IF Len(d) <= prec THEN [i \in 1..(prec + 1 - Len(d)) |-> "0"] \o d ELSE d,
              prec)

\* ip units of 10^-prec, rounded up by the order c of the rest against one
\* half (ties to even)
FormatRounded(ip, c, prec) ==
  FormatPadded(DecFrom(IF c > 0 \/ (c = 0 /\ NIsOdd(ip)) THEN NAdd(ip, One) ELSE ip), prec)

\* n * 2^e units of 10^-prec
FormatScaled(n, e, prec) ==
  IF e >= 0 THEN FormatRounded(NShl(n, e), -1, prec)
  ELSE FormatRounded(NShr(n, 0 - e), NCmp(NLow(n, 0 - e), NShl(One, 0 - e - 1)), prec)

\* x units of 2^-sh * 10^-p are within the distance at which a decimal
\* still reads as the double f: below 10^p units, or equal to it when the
\* significand of f is even (the halfway point then rounds to f)
Within(x, p, f) ==
  NLt(x, NPow(10, p)) \/ (x = NPow(10, p) /\ ~NIsOdd(f.m))

\* the doubles below a power of two lie twice as close as those above it
DownScale(f) == IF f.m = NShl(One, MantBits - 1) /\ f.e > MinExp THEN 4 ELSE 2

\* strconv.FormatFloat(f, 'f', -1, 64) for a finite f >= 0: the fewest
\* decimals that read back as f.  With p decimals the candidates are f cut
\* to lo units of 10^-p (rest rem of 2^sh) and lo + 1 units: the nearer of
\* the two when both read back as f, the one that does when only one does,
\* and one more decimal when neither does
RECURSIVE FormatShortest(_, _)
ShortestPick(f, p, lo, rem, sh) ==
  IF rem = <<>> THEN FormatPadded(DecFrom(lo), p)
  ELSE IF Within(NMulSmall(rem, DownScale(f)), p, f)
       THEN IF Within(NMulSmall(NSub(NShl(One, sh), rem), 2), p, f)
            THEN FormatRounded(lo, NCmp(rem, NShl(One, sh - 1)), p)
            ELSE FormatPadded(DecFrom(lo), p)
  ELSE IF Within(NMulSmall(NSub(NShl(One, sh), rem), 2), p, f)
       THEN FormatPadded(DecFrom(NAdd(lo, One)), p)
  ELSE FormatShortest(f, p + 1)

ShortestScaled(f, p, n) ==
  IF f.e >= 0 THEN FormatPadded(DecFrom(NShl(n, f.e)), p)
  ELSE ShortestPick(f, p, NShr(n, 0 - f.e), NLow(n, 0 - f.e), 0 - f.e)

FormatShortest(f, p) == ShortestScaled(f, p, NMul(f.m, NPow(10, p)))

\* strconv.FormatFloat(f, 'f', prec, 64) for a finite f >= 0: for prec >= 0
\* the exact value of the double, rounded to prec decimals, ties to even;
\* for prec = -1 the fewest decimals that identify the double
FormatFloat(f, prec) ==
  IF prec < 0 THEN FormatShortest(f, 0)
  ELSE FormatScaled(NMul(f.m, NPow(10, prec)), f.e, prec)

(***************************************************************************)
(* Unit prefix tables (util.go) and the formatter.                         *)
(***************************************************************************)
kilo == NatOf(1000)
mega == NMulSmall(kilo, 1000)
giga == NMulSmall(mega, 1000)
tera == NMulSmall(giga, 1000)
peta == NMulSmall(tera, 1000)
exa  == NMulSmall(peta, 1000)
kibi == NatOf(1024)
mebi == NMulSmall(kibi, 1024)
gibi == NMulSmall(mebi, 1024)
tebi == NMulSmall(gibi, 1024)
pebi == NMulSmall(tebi, 1024)
exbi == NMulSmall(pebi, 1024)

siPrefix ==
  [thresholds |-> <<kilo, mega, giga, tera, peta, exa>>,
   preAbbr    |-> << <<"k">>, <<"M">>, <<"G">>, <<"T">>, <<"P">>, <<"E">> >>,
   preFull    |-> << <<"k", "i", "l", "o">>, <<"m", "e", "g", "a">>,
                     <<"g", "i", "g", "a">>, <<"t", "e", "r", "a">>,
                     <<"p", "e", "t", "a">>, <<"e", "x", "a">> >>]

binPrefix ==
  [thresholds |-> <<kibi, mebi, gibi, tebi, pebi, exbi>>,
   preAbbr    |-> << <<"K", "i">>, <<"M", "i">>, <<"G", "i">>,
                     <<"T", "i">>, <<"P", "i">>, <<"E", "i">> >>,
   preFull    |-> << <<"k", "i", "b", "i">>, <<"m", "e", "b", "i">>,
                     <<"g", "i", "b", "i">>, <<"t", "e", "b", "i">>,
                     <<"p", "e", "b", "i">>, <<"e", "x", "b", "i">> >>]

unitBitFull == <<"b", "i", "t">>
unitBitAbbr == unitBitFull
unitByteFull == <<"b", "y", "t", "e">>
unitByteAbbr == <<"B">>

\* the loop of formatUint leaving a value equal to a threshold in the tier below
RECURSIVE TierLoopStrict(_, _, _)
TierLoopStrict(p, v, i) ==
  IF i < 6 /\ NLt(p.thresholds[i + 1], v) THEN TierLoopStrict(p, v, i + 1) ELSE i

\* the loop of formatUint over the tiers (i counts from 1 here, from 0 in
\* the code): skip tier i while the next threshold is not above v
RECURSIVE TierLoop(_, _, _)
TierLoop(p, v, i) ==
  IF i < 6 /\ NLe(p.thresholds[i + 1], v) THEN TierLoop(p, v, i + 1) ELSE i

\* formatUint choosing the tier after the rounding: a magnitude that rounds
\* to the ratio of the tiers is printed as 1 of the next tier
formatUintPromoting(p, v, precision, full, space, uAbbr, uFull) ==
  LET pre  == IF full THEN p.preFull ELSE p.preAbbr
      unit == IF full THEN uFull ELSE uAbbr
      pls0 == IF full THEN <<"s">> ELSE <<>>
      sp   == IF space THEN <<" ">> ELSE <<>>
      pls1 == IF v = One THEN <<>> ELSE pls0
  IN  IF NLt(v, p.thresholds[1])
      THEN FormatUint(v) \o sp \o unit \o pls1
      ELSE LET i   == TierLoop(p, v, 1)
               pls == IF v = p.thresholds[i] THEN <<>> ELSE pls1
               bv  == FDiv(FFromNat(v), FFromNat(p.thresholds[i]))
               mag == FormatFloat(bv, precision)
           IN  IF i < 6 /\ DecimalOf(SubSeq(mag, 1, RunLen(mag, 1, DigitSet)))
                            = p.thresholds[1]
               THEN FormatFloat(FFromNat(One), precision) \o sp \o pre[i + 1] \o unit \o pls
               ELSE mag \o sp \o pre[i] \o unit \o pls

\* formatUint printing a value below the first threshold with the
\* precision, as it prints the values of the tiers
formatUintScaledBase(p, v, precision, full, space, uAbbr, uFull) ==
  LET pre  == IF full THEN p.preFull ELSE p.preAbbr
      unit == IF full THEN uFull ELSE uAbbr
      pls0 == IF full THEN <<"s">> ELSE <<>>
      sp   == IF space THEN <<" ">> ELSE <<>>
      pls1 == IF v = One THEN <<>> ELSE pls0
  IN  IF NLt(v, p.thresholds[1])
      THEN FormatFloat(FFromNat(v), precision) \o sp \o unit \o pls1
      ELSE LET i   == TierLoop(p, v, 1)
               pls == IF v = p.thresholds[i] THEN <<>> ELSE pls1
               bv  == FDiv(FFromNat(v), FFromNat(p.thresholds[i]))
           IN  FormatFloat(bv, precision) \o sp \o pre[i] \o unit \o pls

\* formatUint keeping the plural for a value equal to the threshold of its
\* tier
formatUintPluralTier(p, v, precision, full, space, uAbbr, uFull) ==
  LET pre  == IF full THEN p.preFull ELSE p.preAbbr
      unit == IF full THEN uFull ELSE uAbbr
      pls0 == IF full THEN <<"s">> ELSE <<>>
      sp   == IF space THEN <<" ">> ELSE <<>>
      pls1 == IF v = One THEN <<>> ELSE pls0
  IN  IF NLt(v, p.thresholds[1])
      THEN FormatUint(v) \o sp \o unit \o pls1
      ELSE LET i   == TierLoop(p, v, 1)
               bv  == FDiv(FFromNat(v), FFromNat(p.thresholds[i]))
           IN  FormatFloat(bv, precision) \o sp \o pre[i] \o unit \o pls1

formatUint(p, v, precision, full, space, uAbbr, uFull) ==
  LET pre  == IF full THEN p.preFull ELSE p.preAbbr
      unit == IF full THEN uFull ELSE uAbbr
      pls0 == IF full THEN <<"s">> ELSE <<>>
      sp   == IF space THEN <<" ">> ELSE <<>>
      pls1 == IF v = One THEN <<>> ELSE pls0
  IN  IF NLt(v, p.thresholds[1])
      THEN FormatUint(v) \o sp \o unit \o pls1
      ELSE LET i   == TierLoop(p, v, 1)
               pls == IF v = p.thresholds[i] THEN <<>> ELSE pls1
               bv  == FDiv(FFromNat(v), FFromNat(p.thresholds[i]))
           IN  FormatFloat(bv, precision) \o sp \o pre[i] \o unit \o pls

\* Format with the verb 's' (SI table) or 'S' (binary table); width and
\* padding are left to fmt and add nothing for a text without width
Format(dom, v, verb, precision, full, space) ==
  formatUint(IF verb = "s" THEN siPrefix ELSE binPrefix, v, precision, full, space,
             IF dom = "bit" THEN unitBitAbbr ELSE unitByteAbbr,
             IF dom = "bit" THEN unitBitFull ELSE unitByteFull)

\* String() without a fractional digit, fmt.Sprintf("% .0s", bc)
StringPrec0(dom, v) == Format(dom, v, "s", 0, FALSE, TRUE)

\* String(): fmt.Sprintf("% .1s", bc)
String(dom, v) == Format(dom, v, "s", 1, FALSE, TRUE)

\* MarshalText() with the word "byte" for a ByteCount
MarshalTextWord(dom, v) ==
  FormatUint(v) \o <<" ">> \o (IF dom = "bit" THEN unitBitFull ELSE unitByteFull)

\* MarshalText(): "%d bit" and "%d B"
MarshalText(dom, v) ==
  FormatUint(v) \o <<" ">> \o (IF dom = "bit" THEN unitBitFull ELSE unitByteAbbr)

(***************************************************************************)
(* The scanner: the regular expressions built by init() and Scan.          *)
(* A unit expression is the set of words it matches as a whole (whole),    *)
(* the words it matches at the start of the text (pre) and the words it    *)
(* matches at the end of the text (suf); all under (?i).                   *)
(***************************************************************************)
SISpell == << <<"k">>, <<"m">>, <<"g">>, <<"t">>, <<"p">>, <<"e">> >>

BinSpell ==
  << <<"k", "i">>, <<"m", "i">>, <<"g", "i">>, <<"t", "i">>, <<"p", "i">>, <<"e", "i">> >>

Plural(ws) == ws \cup {w \o <<"s">> : w \in ws}

\* (?i)^bits?$, (?i)^k(ilo)?bits?$ ..., (?i)^(ki|kibi)bits?$ ...
BitRe(prefixes) ==
  [whole |-> Plural({pf \o unitBitFull : pf \in prefixes}), pre |-> {}, suf |-> {}]

\* (?i)^kb|kilobytes?$ ...: the alternation binds weaker than ^ and $
ByteRe(abbr, full) ==
  [whole |-> {}, pre |-> {abbr \o <<"b">>}, suf |-> Plural({full \o unitByteFull})]

bitCountScanUnitRe ==
  << [re |-> BitRe({<<>>}), bcs |-> One, bcb |-> One] >>
  \o [i \in 1..6 |-> [re  |-> BitRe({SISpell[i], siPrefix.preFull[i]}),
                      bcs |-> siPrefix.thresholds[i],
                      bcb |-> binPrefix.thresholds[i]]]
  \o [i \in 1..6 |-> [re  |-> BitRe({BinSpell[i], binPrefix.preFull[i]}),
                      bcs |-> binPrefix.thresholds[i],
                      bcb |-> binPrefix.thresholds[i]]]

byteCountScanUnitRe ==
  << [re  |-> [whole |-> Plural({unitByteFull}) \cup {<<"b">>}, pre |-> {}, suf |-> {}],
      bcs |-> One, bcb |-> One] >>
  \o [i \in 1..6 |-> [re  |-> ByteRe(SISpell[i], siPrefix.preFull[i]),
                      bcs |-> siPrefix.thresholds[i],
                      bcb |-> binPrefix.thresholds[i]]]
  \o [i \in 1..6 |-> [re  |-> ByteRe(BinSpell[i], binPrefix.preFull[i]),
                      bcs |-> binPrefix.thresholds[i],
                      bcb |-> binPrefix.thresholds[i]]]

ScanUnitRe(dom) == IF dom = "bit" THEN bitCountScanUnitRe ELSE byteCountScanUnitRe

\* regexp.MatchString without the flag (?i)
MatchStringCased(re, s) ==
  \/ s \in re.whole
  \/ \E w \in re.pre : HasPrefix(s, w)
  \/ \E w \in re.suf : HasSuffix(s, w)

\* regexp.MatchString
MatchString(re, s) ==
  LET l == ToLower(s)
  IN  \/ l \in re.whole
      \/ \E w \in re.pre : HasPrefix(l, w)
      \/ \E w \in re.suf : HasSuffix(l, w)

\* (?i)^(([0-9]*)(\.[0-9]+)?)([a-z]*)$ : ok, and the groups 1..4
TokenRe0(tok) ==
  LET ni  == RunLen(tok, 1, DigitSet)
      nfd == IF ni + 1 <= Len(tok) /\ tok[ni + 1] = "."
             THEN RunLen(tok, ni + 2, DigitSet) ELSE 0
      nf  == IF nfd > 0 THEN nfd + 1 ELSE 0
      nu  == RunLen(tok, ni + nf + 1, LetterSet)
  IN  [ok   |-> ni + nf + nu = Len(tok),
       num  |-> SubSeq(tok, 1, ni + nf),
       int  |-> SubSeq(tok, 1, ni),
       frac |-> SubSeq(tok, ni + 1, ni + nf),
       unit |-> SubSeq(tok, ni + nf + 1, Len(tok))]

\* (?i)^([a-z]*)$
TokenRe1(tok) == RunLen(tok, 1, LetterSet) = Len(tok)

\* ScanState.SkipSpace
SkipSpace(s) == SubSeq(s, RunLen(s, 1, {" ", "\t"}) + 1, Len(s))

\* the characters of the texts of the model that are not white space
NonSpace ==
  DigitSet \cup LetterSet \cup {".", "+", "-", "/", ",", "\"", "{", "}", "[", "]"}

\* ScanState.Token(skipSpace, nil): the token and what is left unread
Token(skipSpace, s) ==
  LET t == IF skipSpace THEN SkipSpace(s) ELSE s
      n == RunLen(t, 1, NonSpace)
  IN  [tok |-> SubSeq(t, 1, n), rest |-> SubSeq(t, n + 1, Len(t))]

\* uint64(f) for a float64 f: the integer part when it fits; otherwise the
\* result depends on the implementation (amd64 gives 2^63, arm64 saturates)
Uint64OfFloat(f) ==
  IF f.cls = "fin" /\ (~f.neg \/ FTruncMag(f) = <<>>) /\ NLe(FTruncMag(f), MaxUint64)
  THEN {FTruncMag(f)}
  ELSE {NShl(One, 63), MaxUint64}

\* the first entry of the table matching the unit, 0 when none does
RECURSIVE UnitIndex(_, _, _)
UnitIndex(tbl, unitExpr, i) ==
  IF i > Len(tbl) THEN 0
  ELSE IF MatchString(tbl[i].re, unitExpr) THEN i
  ELSE UnitIndex(tbl, unitExpr, i + 1)

\* the factor of a table entry taken as SI whatever the verb
UnitFactorSI(ent, verb) == ent.bcs

UnitFactor(ent, verb) == IF verb \in {"s", "u"} THEN ent.bcs ELSE ent.bcb

\* a count of the base unit: the literal must be an integer
ScanBaseCount(nv) ==
  IF nv.err THEN [err |-> "invalid count", vals |-> {}]
  ELSE [err |-> "nil", vals |-> {nv.val}]

\* a count of the base unit converted from its float64 value when the
\* literal is not an integer
ScanBaseTruncating(numExpr, isInt) ==
  IF ~isInt THEN [err |-> "nil", vals |-> Uint64OfFloat(ParseFloat(numExpr))]
  ELSE ScanBaseCount(ParseUint(numExpr))

ScanBase(numExpr, isInt) ==
  IF ~isInt THEN [err |-> "non-integer count", vals |-> {}]
  ELSE ScanBaseCount(ParseUint(numExpr))

\* an integer literal with the unit of entry k of the table (0 for none):
\* the product is taken in uint64
ScanInteger(nv, tbl, verb, k) ==
  IF nv.err THEN [err |-> "invalid count", vals |-> {}]
  ELSE IF k = 0 THEN [err |-> "unknown unit", vals |-> {}]
  ELSE [err |-> "nil", vals |-> {U64(NMul(nv.val, UnitFactor(tbl[k], verb)))}]

\* a literal with a fraction: the product is taken in float64 and rounded
ScanFloat(fv, tbl, verb, k) ==
  IF k = 0 THEN [err |-> "unknown unit", vals |-> {}]
  ELSE [err  |-> "nil",
        vals |-> Uint64OfFloat(MathRound(FMul(fv, FFromNat(UnitFactor(tbl[k], verb)))))]

\* the part of Scan after the unit expression is known.  The result is the
\* error ("nil" for none) and the set of values the call may store (one
\* value, or none on error)
ScanValue(dom, verb, numExpr, isInt, unitExpr) ==
  IF MatchString(ScanUnitRe(dom)[1].re, unitExpr) THEN ScanBase(numExpr, isInt)
  ELSE IF isInt
  THEN ScanInteger(ParseUint(numExpr), ScanUnitRe(dom), verb,
                   UnitIndex(ScanUnitRe(dom), unitExpr, 1))
  ELSE ScanFloat(ParseFloat(numExpr), ScanUnitRe(dom), verb,
                 UnitIndex(ScanUnitRe(dom), unitExpr, 1))

\* what Scan returns: the error, the values the call may store and the
\* input left unread
ScanFail(e, rest) == [err |-> e, vals |-> {}, rest |-> rest]

ScanDone(r, rest) == [err |-> r.err, vals |-> r.vals, rest |-> rest]

\* Scan after a first token without unit, an empty second token being
\* looked up as a unit
ScanToken2EmptyUnit(dom, verb, token1, isInt, t2) ==
  IF ~TokenRe1(t2.tok) THEN ScanFail("invalid unit expr", t2.rest)
  ELSE ScanDone(ScanValue(dom, verb, token1.num, isInt, t2.tok), t2.rest)

\* Scan after a first token without unit, with the verb s or S: one space
\* and the unit as a second token
ScanToken2(dom, verb, token1, isInt, t2) ==
  IF Len(t2.tok) < 1 THEN ScanFail("no unit suffix", t2.rest)
  ELSE IF ~TokenRe1(t2.tok) THEN ScanFail("invalid unit expr", t2.rest)
  ELSE ScanDone(ScanValue(dom, verb, token1.num, isInt, t2.tok), t2.rest)

\* Scan after the first token, taking any character after the numeral as
\* the separator
ScanToken1AnySeparator(dom, verb, token1, isInt, rest) ==
  IF ~token1.ok THEN ScanFail("invalid expr", rest)
  ELSE IF Len(token1.num) < 1 THEN ScanFail("invalid expr", rest)
  ELSE IF token1.unit # <<>>
       THEN ScanDone(ScanValue(dom, verb, token1.num, isInt, token1.unit), rest)
  ELSE IF verb \in {"u", "U"}
       THEN ScanDone(ScanValue(dom, verb, token1.num, isInt,
                               IF dom = "bit" THEN unitBitFull ELSE <<"b">>), rest)
  ELSE IF rest = <<>> THEN ScanFail("no unit suffix: EOF", rest)
  ELSE ScanToken2(dom, verb, token1, isInt, Token(FALSE, Tail(rest)))

\* Scan after the first token has been matched
ScanToken1(dom, verb, token1, isInt, rest) ==
  IF ~token1.ok THEN ScanFail("invalid expr", rest)
  ELSE IF Len(token1.num) < 1 THEN ScanFail("invalid expr", rest)
  ELSE IF token1.unit # <<>>
       THEN ScanDone(ScanValue(dom, verb, token1.num, isInt, token1.unit), rest)
  ELSE IF verb \in {"u", "U"}
       THEN ScanDone(ScanValue(dom, verb, token1.num, isInt,
                               IF dom = "bit" THEN unitBitFull ELSE <<"b">>), rest)
  ELSE IF rest = <<>> THEN ScanFail("no unit suffix: EOF", rest)
  ELSE IF Head(rest) # " " THEN ScanFail("no space after digits", Tail(rest))
  ELSE ScanToken2(dom, verb, token1, isInt, Token(FALSE, Tail(rest)))

\* Scan after the first token has been read
ScanRead(dom, verb, t1) ==
  IF Len(t1.tok) < 1 THEN ScanFail("no input", t1.rest)
  ELSE ScanToken1(dom, verb, TokenRe0(t1.tok),
                  Len(TokenRe0(t1.tok).int) > 0 /\ Len(TokenRe0(t1.tok).frac) < 1,
                  t1.rest)

\* Scan with the verb s, S, u or U on the input in
Scan(dom, verb, in) ==
  IF verb \notin {"s", "S", "u", "U"} THEN ScanFail("unknown verb", in)
  ELSE ScanRead(dom, verb, Token(TRUE, in))

(***************************************************************************)
(* The scanner of BitRate (float64): the tables built by init() of         *)
(* bitrate.go and BitRate.Scan with the verbs s, S, u and U.               *)
(***************************************************************************)
BitPerSecond == FFromNat(One)

\* (?i)^(bps|bit/s)$, (?i)^k(bps|bit/s)$ ...
RateRe(prefix) ==
  [whole |-> {prefix \o <<"b", "p", "s">>, prefix \o <<"b", "i", "t", "/", "s">>}, pre |-> {}, suf |-> {}]

bitRateScanUnitRe ==
  << [re |-> RateRe(<<>>), brs |-> BitPerSecond, brb |-> BitPerSecond] >>
  \o [i \in 1..6 |-> [re  |-> RateRe(SISpell[i]),
                      brs |-> FFromNat(siPrefix.thresholds[i]),
                      brb |-> FFromNat(binPrefix.thresholds[i])]]
  \o [i \in 1..6 |-> [re  |-> RateRe(BinSpell[i]),
                      brs |-> FFromNat(binPrefix.thresholds[i]),
                      brb |-> FFromNat(binPrefix.thresholds[i])]]

\* the first words of the 3-token spellings: (?i)^k(ilo)?bits?$ ...
bitRateScanUnit3Re ==
  << [re |-> BitRe({<<>>}), brs |-> BitPerSecond, brb |-> BitPerSecond] >>
  \o [i \in 1..6 |-> [re  |-> BitRe({SISpell[i], siPrefix.preFull[i]}),
                      brs |-> FFromNat(siPrefix.thresholds[i]),
                      brb |-> FFromNat(binPrefix.thresholds[i])]]
  \o [i \in 1..6 |-> [re  |-> BitRe({BinSpell[i], binPrefix.preFull[i]}),
                      brs |-> FFromNat(binPrefix.thresholds[i]),
                      brb |-> FFromNat(binPrefix.thresholds[i])]]

\* the characters of [a-z/] under (?i)
RateUnitSet == LetterSet \cup {"/"}

\* the length of the numeral nan, +inf or -inf the token starts with, 0
\* when it starts with none
SpecialLen(tok) ==
  IF HasPrefix(ToLower(tok), <<"n", "a", "n">>) THEN 3
  ELSE IF HasPrefix(ToLower(tok), <<"+", "i", "n", "f">>) \/ HasPrefix(ToLower(tok), <<"-", "i", "n", "f">>) THEN 4
  ELSE 0

\* (?i)^(nan|[+-]inf|([0-9]*)(\.[0-9]+)?)([a-z/]*)$ : ok, and the groups 1
\* and 4; the alternatives are tried in their order
bitRateScanTokenRe0(tok) ==
  LET ns  == SpecialLen(tok)
      ni  == RunLen(tok, 1, DigitSet)
      nfd == IF ni + 1 <= Len(tok) /\ tok[ni + 1] = "."
             THEN RunLen(tok, ni + 2, DigitSet) ELSE 0
      nf  == IF nfd > 0 THEN nfd + 1 ELSE 0
      nu  == RunLen(tok, ni + nf + 1, RateUnitSet)
  IN  IF ns > 0 /\ ns + RunLen(tok, ns + 1, RateUnitSet) = Len(tok)
      THEN [ok |-> TRUE, num |-> SubSeq(tok, 1, ns), unit |-> SubSeq(tok, ns + 1, Len(tok))]
      ELSE [ok   |-> ni + nf + nu = Len(tok),
            num  |-> SubSeq(tok, 1, ni + nf),
            unit |-> SubSeq(tok, ni + nf + 1, Len(tok))]

\* (?i)^([a-z/]+)$
bitRateScanTokenRe1(tok) == Len(tok) > 0 /\ RunLen(tok, 1, RateUnitSet) = Len(tok)

\* (?i)^per$ for i = 0 and (?i)^sec(ond)?$ for i = 1
bitRateScanTokenRe23(i, tok) ==
  IF i = 0 THEN ToLower(tok) = <<"p", "e", "r">>
  ELSE ToLower(tok) \in {<<"s", "e", "c">>, <<"s", "e", "c", "o", "n", "d">>}

\* strconv.ParseFloat(numExpr, 64) for a numeral of the first token (a
\* numeral of the model is short enough never to be out of range)
RateParseFloat(numExpr) ==
  IF ToLower(numExpr) = <<"n", "a", "n">> THEN FNaN
  ELSE IF ToLower(numExpr) = <<"+", "i", "n", "f">> THEN FInf(FALSE)
  ELSE IF ToLower(numExpr) = <<"-", "i", "n", "f">> THEN FInf(TRUE)
  ELSE ParseFloat(numExpr)

\* a store taking the binary value of the unit for every verb
RateStoreBinary(numVal, ent, verb, rest) ==
  [err |-> "nil", vals |-> {FMul(numVal, ent.brb)}, rest |-> rest]

\* *ptr = numVal * unit.brs or numVal * unit.brb
RateStore(numVal, ent, verb, rest) ==
  [err  |-> "nil",
   vals |-> {FMul(numVal, IF verb \in {"s", "u"} THEN ent.brs ELSE ent.brb)},
   rest |-> rest]

\* fmt.Errorf("%%%c: unknown unit: %s", verb, ...): suf is the text after
\* "unknown unit: "
RateUnknownUnit(suf, rest) ==
  [err |-> "unknown unit", vals |-> {}, rest |-> rest, suf |-> suf]

\* the end of the 3-token spelling: the first word is looked up
RateScan3Unit(verb, numVal, rest, k, eSuf) ==
  IF k = 0 THEN RateUnknownUnit(eSuf, rest)
  ELSE RateStore(numVal, bitRateScanUnit3Re[k], verb, rest)

\* the loop over the second (i = 0) and third (i = 1) word of a 3-token
\* spelling: one space, then a token matching "per" or "sec(ond)"; eSuf is
\* the unit and the words accepted so far
RECURSIVE RateScan3(_, _, _, _, _, _)
\* the loop accepting any word as the second and the third
RateScan3TokenAnyWord(verb, numVal, unitExpr, t, i, eSuf) ==
  IF Len(t.tok) < 1 THEN RateUnknownUnit(eSuf, t.rest)
  ELSE RateScan3(verb, numVal, unitExpr, t.rest, i + 1, eSuf \o <<" ">> \o t.tok)

RateScan3Token(verb, numVal, unitExpr, t, i, eSuf) ==
  IF Len(t.tok) < 1 THEN RateUnknownUnit(eSuf, t.rest)
  ELSE IF ~bitRateScanTokenRe23(i, t.tok)
       THEN RateUnknownUnit(eSuf \o <<" ">> \o t.tok, t.rest)
  ELSE RateScan3(verb, numVal, unitExpr, t.rest, i + 1, eSuf \o <<" ">> \o t.tok)

RateScan3(verb, numVal, unitExpr, rest, i, eSuf) ==
  IF i = 2
  THEN RateScan3Unit(verb, numVal, rest, UnitIndex(bitRateScanUnit3Re, unitExpr, 1), eSuf)
  ELSE IF rest = <<>> THEN RateUnknownUnit(eSuf, rest)
  ELSE IF Head(rest) # " " THEN RateUnknownUnit(eSuf \o <<Head(rest)>>, Tail(rest))
  ELSE RateScan3Token(verb, numVal, unitExpr, Token(FALSE, Tail(rest)), i, eSuf)

\* the part of Scan after the unit expression is known: k is the entry of
\* the compact spellings the unit matches, 0 for none
RateScanValue(verb, numVal, unitExpr, rest, k) ==
  IF k > 0 THEN RateStore(numVal, bitRateScanUnitRe[k], verb, rest)
  ELSE RateScan3(verb, numVal, unitExpr, rest, 0, unitExpr)

RateScanUnit(verb, numExpr, unitExpr, rest) ==
  RateScanValue(verb, RateParseFloat(numExpr), unitExpr, rest,
                UnitIndex(bitRateScanUnitRe, unitExpr, 1))

\* after a first token without unit, with the verb s or S
RateScanToken2(verb, token1, t2) ==
  IF Len(t2.tok) < 1 THEN ScanFail("no unit suffix", t2.rest)
  ELSE IF ~bitRateScanTokenRe1(t2.tok) THEN ScanFail("invalid unit expr", t2.rest)
  ELSE RateScanUnit(verb, token1.num, t2.tok, t2.rest)

\* after the first token, the verbs u and U reading a second token as s
\* and S do
RateScanToken1Lenient(verb, token1, rest) ==
  IF ~token1.ok THEN ScanFail("invalid expr", rest)
  ELSE IF Len(token1.num) < 1 THEN ScanFail("invalid expr", rest)
  ELSE IF token1.unit # <<>> THEN RateScanUnit(verb, token1.num, token1.unit, rest)
  ELSE IF rest = <<>> THEN ScanFail("no unit suffix: EOF", rest)
  ELSE IF Head(rest) # " " THEN ScanFail("no space after digits", Tail(rest))
  ELSE RateScanToken2(verb, token1, Token(FALSE, Tail(rest)))

\* after the first token has been matched
RateScanToken1(verb, token1, rest) ==
  IF ~token1.ok THEN ScanFail("invalid expr", rest)
  ELSE IF Len(token1.num) < 1 THEN ScanFail("invalid expr", rest)
  ELSE IF token1.unit # <<>> THEN RateScanUnit(verb, token1.num, token1.unit, rest)
  ELSE IF verb \in {"u", "U"} THEN RateScanUnit(verb, token1.num, <<"b", "i", "t", "/", "s">>, rest)
  ELSE IF rest = <<>> THEN ScanFail("no unit suffix: EOF", rest)
  ELSE IF Head(rest) # " " THEN ScanFail("no space after digits", Tail(rest))
  ELSE RateScanToken2(verb, token1, Token(FALSE, Tail(rest)))

RateScanRead(verb, t1) ==
  IF Len(t1.tok) < 1 THEN ScanFail("no input", t1.rest)
  ELSE RateScanToken1(verb, bitRateScanTokenRe0(t1.tok), t1.rest)

\* BitRate.Scan with the verb s, S, u or U on the input in
BitRateScan(verb, in) == RateScanRead(verb, Token(TRUE, in))

\* fmt.Sscanf(text, "%" + verb, &rate)
BitRateSscanf(verb, text) == BitRateScan(verb, SkipSpace(text))

(***************************************************************************)
(* The value types: conversions and derived quantities.                    *)
(* A time.Duration (int64) is [neg, mag], zero being [FALSE, <<>>].        *)
(***************************************************************************)
Second == NMulSmall(NMulSmall(NatOf(1000), 1000), 1000)

MaxInt64 == NSub(NShl(One, 63), One)

Dur(neg, mag) == [neg |-> neg /\ mag # <<>>, mag |-> mag]

DZero == Dur(FALSE, <<>>)

\* float64(i) for an int64 i
FFromDur(d) == FRound(d.neg, d.mag, One, 0)

\* int64(f) for a float64 f: the integer part when it fits; otherwise the
\* result depends on the implementation (amd64 gives the minimum, arm64
\* saturates and gives 0 for NaN)
Int64OfFloat(f) ==
  IF f.cls = "fin" /\ NLe(FTruncMag(f), IF f.neg THEN NShl(One, 63) ELSE MaxInt64)
  THEN {Dur(f.neg, FTruncMag(f))}
  ELSE {Dur(TRUE, NShl(One, 63)),
        IF f.cls = "nan" THEN DZero
        ELSE IF f.neg THEN Dur(TRUE, NShl(One, 63)) ELSE Dur(FALSE, MaxInt64)}

\* ByteCount.BitCount() testing only the top two bits
ByteCountBitCountTop2(bc) ==
  IF NLow(NShr(bc, 62), 2) # <<>>
  THEN [val |-> <<>>, err |-> "ErrOutOfRange"]
  ELSE [val |-> U64(NShl(bc, 3)), err |-> "nil"]

\* ByteCount.BitCount(): bc&(0b111<<61) != 0 is out of range, else bc << 3
ByteCountBitCount(bc) ==
  IF NLow(NShr(bc, 61), 3) # <<>>
  THEN [val |-> <<>>, err |-> "ErrOutOfRange"]
  ELSE [val |-> U64(NShl(bc, 3)), err |-> "nil"]

\* BitCount.ByteCount() with the mask 0x3
BitCountByteCountMask3(bc) == [bytes |-> NShr(bc, 3), bits |-> NLow(bc, 2)]

\* BitCount.ByteCount(): bc >> 3 and bc & 0x7
BitCountByteCount(bc) == [bytes |-> NShr(bc, 3), bits |-> NLow(bc, 3)]

\* float64(bc) for a BitCount, float64(bc) * 8 for a ByteCount
FloatBits(dom, bc) ==
  IF dom = "bit" THEN FFromNat(bc) ELSE FMul(FFromNat(bc), FFromNat(NatOf(8)))

\* the end of CalcTime: the range check and the conversion of ns
DurationOf(ns) ==
  IF FLt(ns, FNeg(FFromNat(NShl(One, 63)))) \/ FLt(FFromNat(MaxInt64), ns)
  THEN {[d |-> DZero, err |-> "ErrOutOfRange"]}
  ELSE {[d |-> d, err |-> "nil"] : d \in Int64OfFloat(ns)}

\* the rest of CalcTime, for a rate that is not zero
CalcTimeNonZero(dom, bc, rate) ==
  DurationOf(FDiv(FMul(FloatBits(dom, bc), FFromNat(Second)), rate))

\* CalcTime comparing the bits of the rate with those of +0
CalcTimeBitwiseZero(dom, bc, rate) ==
  IF rate = FZero(FALSE) THEN {[d |-> DZero, err |-> "ErrDivZeroBitRate"]}
  ELSE CalcTimeNonZero(dom, bc, rate)

\* CalcTime: the set of results (duration, error) the call may return
CalcTime(dom, bc, rate) ==
  IF FIsZero(rate) THEN {[d |-> DZero, err |-> "ErrDivZeroBitRate"]}
  ELSE CalcTimeNonZero(dom, bc, rate)

\* float64(sec) + float64(nsec) / 1e9
SecondsOf(neg, qr) ==
  FAdd(FFromDur(Dur(neg, qr.q)), FDiv(FFromDur(Dur(neg, qr.r)), FFromNat(Second)))

\* Duration.Seconds(): sec := d / Second; nsec := d % Second
Seconds(d) == SecondsOf(d.neg, NDivMod(d.mag, Second))

\* CalcBitRate without the test for a zero count
CalcBitRateNoZeroCount(dom, bc, d) ==
  IF d = DZero THEN FInf(FALSE) ELSE FDiv(FloatBits(dom, bc), Seconds(d))

\* CalcBitRate
CalcBitRate(dom, bc, d) ==
  IF d = DZero
  THEN IF bc = <<>> THEN FZero(FALSE) ELSE FInf(FALSE)
  ELSE FDiv(FloatBits(dom, bc), Seconds(d))

\* fmt.Sscanf(text, "%" + verb, &v) with v a BitCount or ByteCount
Sscanf(dom, verb, text) == Scan(dom, verb, SkipSpace(text))

\* what a Parse function returns for the result r of the scan
ParseResult(r) ==
  IF r.err # "nil" THEN {[v |-> <<>>, err |-> r.err]}
  ELSE {[v |-> v, err |-> "nil"] : v \in r.vals}

\* ParseBitCount / ParseByteCount (verb s) and ...Binary (verb S): the
\* results (value, error) the call may return
Parse(dom, verb, text) == ParseResult(Sscanf(dom, verb, text))

(***************************************************************************)
(* ParseBitRate and ParseBitRateBinary.  Their bodies are not among the    *)
(* source files.  TestParseBitRate and TestParseBitRateBinary require a    *)
(* numeral with a leading sign to be accepted ("-1 kbit/s" is -1000),      *)
(* while BitRate.Scan rejects one ("+9999" is an invalid expression in     *)
(* TestBitRate_Scan_1): the sign is therefore taken off by the Parse       *)
(* function, the rest is scanned as ParseBitCount scans its text, with the *)
(* verb s (S for ...Binary), and the value is negated for "-".             *)
(***************************************************************************)
SignChars == {"+", "-"}

\* the text without its leading sign
Unsigned(s) == IF Len(s) > 0 /\ s[1] \in SignChars THEN Tail(s) ELSE s

\* the value v under the sign of the text
Signed(s, v) == IF Len(s) > 0 /\ s[1] = "-" THEN FNeg(v) ELSE v

\* what the Parse function returns for the result r of the scan
ParseRateResult(s, r) ==
  IF r.err # "nil" THEN {[v |-> FZero(FALSE), err |-> r.err]}
  ELSE {[v |-> Signed(s, v), err |-> "nil"] : v \in r.vals}

\* ParseBitRate (verb s) and ParseBitRateBinary (verb S)
ParseBitRate(verb, s) == ParseRateResult(s, BitRateSscanf(verb, Unsigned(s)))

(***************************************************************************)
(* BitRate.CalcBitCount and BitRate.CalcByteCount (count = rate x time).   *)
(* The bodies of the two methods are not among the source files: they are  *)
(* taken from the specification (rate.countGiven), and from the cases of   *)
(* TestBitRate_CalcBitCount and TestBitRate_CalcByteCount where these say  *)
(* more: a NaN rate gives a zero count and no error, and a product of -0   *)
(* (a zero rate and a negative duration) is out of range.                  *)
(***************************************************************************)
OutOfRange == [val |-> <<>>, err |-> "ErrOutOfRange"]

\* the count for a product c that is finite and not negative
CountOf(c) ==
  IF NLe(FTruncMag(c), MaxUint64) THEN [val |-> FTruncMag(c), err |-> "nil"]
  ELSE OutOfRange

\* the count for the product p of a finite rate and the seconds: in bits, or
\* in bytes of 8 bits
CountOfProduct(kind, p) ==
  IF p.neg THEN OutOfRange
  ELSE CountOf(IF kind = "byte" THEN FDiv(p, FFromNat(NatOf(8))) ELSE p)

\* br.CalcBitCount(duration) (kind "bit"), br.CalcByteCount(duration) (kind
\* "byte")
CalcCount(kind, br, duration) ==
  IF br.cls = "nan" THEN [val |-> <<>>, err |-> "nil"]
  ELSE IF br.cls = "inf" THEN OutOfRange
  ELSE CountOfProduct(kind, FMul(br, Seconds(duration)))

(***************************************************************************)
(* BitCount.UnmarshalJSON.  A payload is the sequence of its characters;   *)
(* the payloads of the model carry no white space around the value and no  *)
(* escape sequence inside a string.                                        *)
(***************************************************************************)
jsonNULL == <<"n", "u", "l", "l">>

\* json.Unmarshal(b, &u64): a JSON number that strconv.ParseUint accepts
JSONUint(b) ==
  IF /\ b # <<>>
     /\ \A i \in 1..Len(b) : b[i] \in DigitSet
     /\ (Len(b) = 1 \/ b[1] # "0")
     /\ NLe(DecimalOf(b), MaxUint64)
  THEN [ok |-> TRUE, val |-> DecimalOf(b)]
  ELSE [ok |-> FALSE, val |-> <<>>]

\* json.Unmarshal(b, &s): a JSON string, without control characters
JSONString(b) ==
  IF /\ Len(b) >= 2
     /\ b[1] = "\""
     /\ b[Len(b)] = "\""
     /\ \A i \in 2..(Len(b) - 1) : b[i] \notin {"\"", "\\", "\t"}
  THEN [ok |-> TRUE, s |-> SubSeq(b, 2, Len(b) - 1)]
  ELSE [ok |-> FALSE, s |-> <<>>]

\* the end of UnmarshalJSON storing the value ParseBitCount returns, its
\* error or not
UnmarshalJSONParsedStored(prior, r) ==
  IF r.err # "nil" THEN [err |-> "ErrMalformedRepresentation", v |-> r.v]
  ELSE [err |-> "nil", v |-> r.v]

\* the end of UnmarshalJSON for a string payload: the result r of
\* ParseBitCount
UnmarshalJSONParsed(prior, r) ==
  IF r.err # "nil" THEN [err |-> "ErrMalformedRepresentation", v |-> prior]
  ELSE [err |-> "nil", v |-> r.v]

\* UnmarshalJSON storing what json.Unmarshal leaves in u64 for null
UnmarshalJSONNullAsNumber(prior, b) ==
  IF b = jsonNULL THEN {[err |-> "nil", v |-> <<>>]}
  ELSE IF JSONUint(b).ok THEN {[err |-> "nil", v |-> JSONUint(b).val]}
  ELSE IF JSONString(b).ok
       THEN {UnmarshalJSONParsed(prior, r) : r \in Parse("bit", "s", JSONString(b).s)}
  ELSE {[err |-> "ErrMalformedRepresentation", v |-> prior]}

\* (*BitCount).UnmarshalJSON(b) on a variable holding prior: the error and
\* the value the variable holds afterwards
UnmarshalJSON(prior, b) ==
  IF b = jsonNULL THEN {[err |-> "nil", v |-> prior]}
  ELSE IF JSONUint(b).ok THEN {[err |-> "nil", v |-> JSONUint(b).val]}
  ELSE IF JSONString(b).ok
       THEN {UnmarshalJSONParsed(prior, r) : r \in Parse("bit", "s", JSONString(b).s)}
  ELSE {[err |-> "ErrMalformedRepresentation", v |-> prior]}

\* (*BitCount).UnmarshalYAML(unmarshal) on a variable holding prior: the
\* error and the value the variable holds afterwards.  The callback decodes
\* the node of the document into a uint64 when node.kind is "number", into
\* a string when it is "string", and into neither for any other node
UnmarshalYAML(prior, node) ==
  IF node.kind = "number" THEN {[err |-> "nil", v |-> node.u]}
  ELSE IF node.kind = "string"
       THEN {IF r.err # "nil"
             THEN [err |-> "ErrMalformedRepresentation", v |-> prior]
             ELSE [err |-> "nil", v |-> r.v] : r \in Parse("bit", "s", node.s)}
  ELSE {[err |-> "ErrMalformedRepresentation", v |-> prior]}

(***************************************************************************)
(* UnmarshalJSON and UnmarshalYAML of ByteCount and BitRate.  Their bodies *)
(* are not among the source files.  The specification gives them the shape *)
(* of the ones of BitCount: a number is taken as a count of the base unit  *)
(* (a float for a rate), a string is parsed as ParseByteCount and          *)
(* ParseBitRate parse it, and a null leaves the variable as it is.         *)
(***************************************************************************)
StructuredDecode(d, prior, node) ==
  IF node.kind = "null" THEN {[err |-> "nil", v |-> prior]}
  ELSE IF node.kind = "number" THEN {[err |-> "nil", v |-> node.u]}
  ELSE IF node.kind = "string"
       THEN {IF r.err # "nil"
             THEN [err |-> "ErrMalformedRepresentation", v |-> prior]
             ELSE [err |-> "nil", v |-> r.v] :
               r \in IF d = "rate" THEN ParseBitRate("s", node.s)
                     ELSE Parse(d, "s", node.s)}
  ELSE {[err |-> "ErrMalformedRepresentation", v |-> prior]}

(***************************************************************************)
(* MarshalBinary and UnmarshalBinary of the three types.  A payload is a   *)
(* sequence of bytes (0..255).                                             *)
(***************************************************************************)
\* binary.BigEndian.PutUint64(b, v)
PutUint64(v) == [i \in 1..8 |-> Limb(v, 9 - i)]

\* binary.BigEndian.Uint64(data) for 8 bytes
BigEndianUint64(data) == Norm([i \in 1..8 |-> data[9 - i]])

\* the bits of math.NaN()
NaNBits == <<1, 0, 0, 0, 0, 0, 248, 127>>

\* math.Float64bits(f)
Float64bits(f) ==
  IF f.cls = "nan" THEN NaNBits
  ELSE NAdd(IF f.neg THEN NShl(One, 63) ELSE <<>>,
            IF f.cls = "inf" THEN NShl(NatOf(2047), 52)
            ELSE IF f.m = <<>> THEN <<>>
            ELSE IF NBitLen(f.m) < MantBits THEN f.m
            ELSE NAdd(NShl(NatOf(f.e + 1075), 52), NLow(f.m, 52)))

\* math.Float64frombits(b): sign, 11 bits of exponent ex and 52 bits of
\* fraction frac
FloatOfFields(neg, ex, frac) ==
  IF ex = 2047 THEN (IF frac = <<>> THEN FInf(neg) ELSE FNaN)
  ELSE IF ex = 0
       THEN (IF frac = <<>> THEN FZero(neg)
             ELSE [cls |-> "fin", neg |-> neg, m |-> frac, e |-> MinExp])
  ELSE [cls |-> "fin", neg |-> neg, m |-> NAdd(NShl(One, 52), frac), e |-> ex - 1075]

Float64frombits(b) ==
  FloatOfFields(Limb(b, 8) >= 128, IntOf(NLow(NShr(b, 52), 11)), NLow(b, 52))

\* MarshalBinary(): 8 bytes, big-endian, of the count or of the bits of the
\* rate
MarshalBinary(dom, v) ==
  IF dom = "rate" THEN PutUint64(Float64bits(v)) ELSE PutUint64(v)

\* UnmarshalBinary reading the first 8 bytes of a longer payload
UnmarshalBinaryPrefix(dom, prior, data) ==
  IF Len(data) < 8 THEN [err |-> "invalid len", v |-> prior]
  ELSE [err |-> "nil",
        v   |-> IF dom = "rate" THEN Float64frombits(BigEndianUint64(SubSeq(data, 1, 8)))
                ELSE BigEndianUint64(SubSeq(data, 1, 8))]

\* UnmarshalBinary(data) on a variable holding prior: the error and the
\* value the variable holds afterwards
UnmarshalBinary(dom, prior, data) ==
  IF Len(data) # 8 THEN [err |-> "invalid len", v |-> prior]
  ELSE [err |-> "nil",
        v   |-> IF dom = "rate" THEN Float64frombits(BigEndianUint64(data))
                ELSE BigEndianUint64(data)]

(***************************************************************************)
(* The atomic functions: wrappers of sync/atomic on the 64-bit word at     *)
(* addr.  An operation of sync/atomic is indivisible: it is given the word *)
(* and yields the word it leaves (mem) and what it returns (ret).          *)
(***************************************************************************)
\* atomic.AddUint64(addr, delta): adds, keeps 64 bits, returns the new value
AddUint64(mem, delta) ==
  [mem |-> U64(NAdd(mem, delta)), ret |-> U64(NAdd(mem, delta))]

\* atomic.SwapUint64(addr, new): returns the old value
SwapUint64(mem, new) == [mem |-> new, ret |-> mem]

\* uint64(delta - 1), the subtraction wrapping below zero
Decrement(delta) == IF delta = <<>> THEN MaxUint64 ELSE NSub(delta, One)

\* ^x of a uint64: every bit inverted
Complement(x) == NSub(MaxUint64, x)

\* AtomicAddBitCount, AtomicAddByteCount
AtomicAdd(mem, delta) == AddUint64(mem, delta)

\* the operand of a subtraction taken as ^uint64(delta)
SubOperandNoDecrement(delta) == Complement(delta)

\* the operand AtomicSub... hands to atomic.AddUint64: ^uint64(delta - 1)
SubOperand(delta) == Complement(Decrement(delta))

\* AtomicSubBitCount, AtomicSubByteCount
AtomicSub(mem, delta) == AddUint64(mem, SubOperand(delta))

\* the word that holds a value of type d, and the value a word holds
WordOf(d, v) == IF d = "rate" THEN Float64bits(v) ELSE v

ValueOf(d, w) == IF d = "rate" THEN Float64frombits(w) ELSE w

\* AtomicSwapBitCount, AtomicSwapByteCount, AtomicSwapBitRate
AtomicSwapOf(d, r) == [mem |-> r.mem, ret |-> ValueOf(d, r.ret)]

AtomicSwap(d, mem, new) == AtomicSwapOf(d, SwapUint64(mem, WordOf(d, new)))

(***************************************************************************)
(* The inputs the model enumerates.                                        *)
(***************************************************************************)
\* multiples of a threshold taken, 1..MaxMul
MaxMul == 2

\* distance taken around a threshold, a multiple of it, or a power of two
MaxDelta == 1

\* twentieths of a threshold taken above a multiple of it
MaxStep == 3

\* precisions the Format action takes, -1 (none given) and 0..MaxPrec
MaxPrec == 1

\* integer literals of the scanned inputs, MaxLit - 5 .. MaxLit
MaxLit == 19

\* binary exponents of the rates, up to MaxRateExp
MaxRateExp == 10

Doms == {"bit", "byte"}

AllThresholds == Range(siPrefix.thresholds) \cup Range(binPrefix.thresholds)

\* the uint64 values within MaxDelta of a
Near(a) ==
  {v \in {NAdd(a, NatOf(d)) : d \in 0..MaxDelta}
         \cup {NSub(a, NatOf(d)) : d \in {k \in 1..MaxDelta : NLe(NatOf(k), a)}} :
     NLe(v, MaxUint64)}

\* values around the places where a multiplication by 8 overflows
EdgeValues == UNION {Near(NShl(NatOf(j), 61)) : j \in 0..8}

\* values around the tier thresholds, their multiples, and between them
TierValues ==
  UNION {Near(t) : t \in AllThresholds}
  \cup {v \in {NMulSmall(t, k) : t \in AllThresholds, k \in (2..MaxMul) \cup {18}} :
          NLe(v, MaxUint64)}
  \cup {NAdd(t, NMulSmall(NDivSmall(t, 20).q, j)) : t \in AllThresholds, j \in 1..MaxStep}

SmallValues == {NatOf(7), NatOf(8), NatOf(9), NatOf(12), NatOf(999)}

\* the value a destination holds before a call
Prior == NatOf(77)

\* the inputs of the scanning calls: a numeral, a separator and a unit word
IntLits ==
  {FormatUint(NatOf(n)) : n \in {0, 1} \cup ((MaxLit - 5)..MaxLit)}
  \cup {FormatUint(MaxUint64), FormatUint(NShl(One, 64))}

FracLits == {<<"0", ".", "1">>, <<"3", "0", ".", "0">>, <<".", "5">>, <<"1", ".", "5">>}

Seps == {<<>>, <<" ">>}

UnitWords ==
  {<<>>, <<"b", "i", "t">>, <<"b", "i", "t", "s">>, <<"B", "i", "t">>, <<"b">>, <<"B">>,
   <<"b", "y", "t", "e">>, <<"b", "y", "t", "e", "s">>, <<"k", "b", "i", "t">>, <<"k", "B">>,
   <<"E", "b", "i", "t">>, <<"E", "B">>, <<"E", "i", "b", "i", "t">>, <<"E", "i", "B">>, <<"x">>}

\* more spellings of the units, in both domains
SpellWords ==
  {<<"K", "B">>, <<"k", "b">>, <<"k", "i", "l", "o", "b", "y", "t", "e">>,
   <<"k", "i", "l", "o", "b", "y", "t", "e", "s">>,
   <<"K", "i", "l", "o", "b", "y", "t", "e", "s">>,
   <<"K", "I", "L", "O", "B", "Y", "T", "E">>, <<"K", "i", "B">>, <<"k", "i", "b">>,
   <<"k", "i", "b", "i", "b", "y", "t", "e">>,
   <<"k", "i", "b", "i", "b", "y", "t", "e", "s">>, <<"M", "B">>,
   <<"m", "e", "g", "a", "b", "y", "t", "e", "s">>, <<"G", "i", "B">>,
   <<"k", "b", "i", "t">>, <<"K", "b", "i", "t">>, <<"k", "i", "l", "o", "b", "i", "t">>,
   <<"k", "i", "l", "o", "b", "i", "t", "s">>, <<"K", "I", "L", "O", "B", "I", "T", "S">>,
   <<"K", "i", "b", "i", "t">>, <<"k", "i", "b", "i", "b", "i", "t">>,
   <<"k", "i", "b", "i", "b", "i", "t", "s">>, <<"M", "b", "i", "t">>,
   <<"m", "e", "g", "a", "b", "i", "t", "s">>, <<"B", "Y", "T", "E", "S">>,
   <<"B", "I", "T", "S">>}

\* words that are no spelling of a unit
JunkWords ==
  {<<"k", "b", "x">>, <<"x", "k", "b">>, <<"j", "i", "g", "o", "w", "a", "t", "t", "s">>,
   <<"k", "i", "l", "o", "b", "y", "t", "e", "s", "x">>,
   <<"a", "k", "i", "l", "o", "b", "y", "t", "e">>, <<"k", "b", "i", "t", "s">>,
   <<"b", "s">>, <<"k", "b", "s">>, <<"k", "i">>, <<"k">>, <<"6", "6", "6">>}

\* one or no space, two spaces, a tab
AllSeps == Seps \cup {<<" ", " ">>, <<"\t">>}

\* literals with a decimal point whose product with a unit has a fraction:
\* below, at and above one half
PointLits == {<<"2", "2", "0", ".", "5">>, <<".", "7", "5">>, <<"0", ".", "0", "0", "0", "5", "6", "7">>, <<"0", ".", "0", "0", "0", "0", "1">>, <<"0", ".", "5", "0", "0", "5">>}

ScanInputs ==
  {[num |-> n, sep |-> sp, unit |-> u] : n \in IntLits \cup FracLits, sp \in Seps, u \in UnitWords}
  \cup {[num |-> n, sep |-> sp, unit |-> u] :
          n \in {<<>>, <<"2", "1", "0">>}, sp \in AllSeps,
          u \in UnitWords \cup SpellWords \cup JunkWords}
  \cup {[num |-> n, sep |-> sp, unit |-> u] :
          n \in PointLits, sp \in Seps,
          u \in {<<"k", "B">>, <<"k", "b", "i", "t">>, <<"m", "e", "g", "a", "b", "y", "t", "e", "s">>, <<"m", "e", "g", "a", "b", "i", "t", "s">>}}

\* rates: 0, powers of two, and 1e9 = 1953125 * 2^9 and its neighbours
Rates ==
  {FRound(neg, NatOf(m), One, e) :
     neg \in BOOLEAN, m \in {0, 1, 1953125}, e \in {0 - 1} \cup ((MaxRateExp - 3)..MaxRateExp)}
  \cup {FInf(FALSE), FInf(TRUE), FNaN}

\* durations: whole and broken seconds, of both signs, and the extremes
Durations ==
  {Dur(neg, NAdd(NMulSmall(Second, k), NatOf(n))) :
     neg \in BOOLEAN, k \in {0, 1, 10, 8000}, n \in {0, 1, 500000000}}
  \cup {Dur(FALSE, MaxInt64), Dur(TRUE, NShl(One, 63))}

\* the inputs of the scanning calls of a BitRate
RateNums ==
  {<<>>, <<"0">>, <<"1", "1", "4">>, <<"1", "1", "6", ".", "5">>, <<".", "5">>, <<"1", ".", "2", "1">>, <<"n", "a", "n">>, <<"+", "i", "n", "f">>,
   <<"-", "I", "n", "f">>}

RateWords ==
  {<<>>, <<"b", "i", "t", "/", "s">>, <<"B", "I", "T", "/", "S">>, <<"b", "p", "s">>, <<"B", "P", "S">>, <<"k", "b", "i", "t", "/", "s">>, <<"k", "b", "p", "s">>,
   <<"M", "b", "i", "t", "/", "s">>, <<"K", "i", "b", "i", "t", "/", "s">>, <<"k", "i", "b", "p", "s">>, <<"E", "i", "b", "i", "t", "/", "s">>, <<"b", "i", "t">>, <<"b", "i", "t", "s">>,
   <<"k", "b", "i", "t">>, <<"b", "i", "t", " ", "p", "e", "r", " ", "s", "e", "c", "o", "n", "d">>, <<"b", "i", "t", "s", " ", "p", "e", "r", " ", "s", "e", "c">>, <<"k", "i", "l", "o", "b", "i", "t", "s", " ", "p", "e", "r", " ", "s", "e", "c", "o", "n", "d">>,
   <<"K", "I", "L", "O", "B", "I", "T", "S", " ", "P", "E", "R", " ", "S", "E", "C", "O", "N", "D">>, <<"k", "i", "b", "i", "b", "i", "t", "s", " ", "p", "e", "r", " ", "s", "e", "c", "o", "n", "d">>, <<"m", "e", "g", "a", "b", "i", "t", " ", "p", "e", "r", " ", "s", "e", "c">>,
   <<"b", "i", "t", " ", "p", "e", "r">>, <<"b", "i", "t", " ", "p", "e", "r", " ">>, <<"b", "i", "t", " ", "x", "x", "x", " ", "s", "e", "c", "o", "n", "d">>, <<"b", "i", "t", " ", "p", "e", "r", " ", "x", "x", "x">>,
   <<"b", "i", "t", " ", " ", "p", "e", "r", " ", "s", "e", "c", "o", "n", "d">>, <<"b", "i", "t", " ", "p", "e", "r", " ", " ", "s", "e", "c", "o", "n", "d">>, <<"b", "i", "t", "/", "s", " ", "p", "e", "r", " ", "s", "e", "c", "o", "n", "d">>,
   <<"k", "b", "p", "s", " ", "p", "e", "r", " ", "s", "e", "c", "o", "n", "d">>, <<"j", "i", "g", "o", "w", "a", "t", "t", "s">>, <<"j", "i", "g", "o", "w", "a", "t", "t", "s", " ", "p", "e", "r", " ", "s", "e", "c", "o", "n", "d">>, <<"X", "X", "X", "/", "X">>,
   <<"x", "x", "x", " ", "x", "x", "x", " ", "x", "x", "x", "x", "x", "x">>, <<"6", "6", "6">>, <<"b", "i", "t", "\t", "p", "e", "r">>}

RateScanInputs ==
  {[num |-> n, sep |-> sp, unit |-> u] : n \in RateNums, sp \in AllSeps, u \in RateWords}
  \cup {[num |-> <<"1", "2", "3", "4", "5", ".", "6", "7", "8">>, sep |-> sp, unit |-> <<"k", "i", "l", "o", "b", "i", "t", "s", " ", "p", "e", "r", " ", "s", "e", "c", "o", "n", "d">>] :
          sp \in Seps}

\* the value of a BitRate variable before a call stores into it
RatePrior == FFromNat(Prior)

\* the values a BitCount holds before UnmarshalJSON
JSONPriors == {<<>>, Prior, MaxUint64}

\* the JSON payloads: null, numbers, strings of the scanned texts, and
\* values of other types or no JSON at all
JSONPayloads ==
  {jsonNULL, <<"n", "u", "l">>, <<"N", "U", "L", "L">>, <<"t", "r", "u", "e">>, <<"{", "}">>, <<"[", "1", "]">>, <<"-", "1">>, <<"1", "e", "3">>,
   <<"0", "1", "2">>, <<"\"", "1", "2">>, <<>>}
  \cup IntLits \cup FracLits
  \cup {<<"\"">> \o in.num \o in.sep \o in.unit \o <<"\"">> : in \in ScanInputs}

\* payloads of 8 bytes: counts and the bits of rates
Payloads8 ==
  {<<0, 0, 0, 0, 0, 0, 0, 0>>, <<0, 0, 0, 0, 0, 0, 0, 1>>, <<0, 0, 0, 0, 58, 222, 104, 177>>,
   <<255, 255, 255, 255, 255, 255, 255, 254>>, <<255, 255, 255, 255, 255, 255, 255, 255>>,
   <<63, 240, 0, 0, 0, 0, 0, 0>>, <<191, 240, 0, 0, 0, 0, 0, 0>>,
   <<64, 254, 36, 12, 122, 225, 71, 174>>, <<127, 248, 0, 0, 0, 0, 0, 1>>,
   <<127, 240, 0, 0, 0, 0, 0, 0>>, <<255, 240, 0, 0, 0, 0, 0, 0>>,
   <<127, 239, 255, 255, 255, 255, 255, 255>>, <<128, 0, 0, 0, 0, 0, 0, 0>>,
   <<0, 16, 0, 0, 0, 0, 0, 0>>, <<0, 15, 255, 255, 255, 255, 255, 255>>}

\* the payloads given to UnmarshalBinary: of 8 bytes, cut short (0, 1, 7
\* bytes) and too long (9, 16 bytes)
Payloads ==
  Payloads8
  \cup {SubSeq(p, 1, n) : p \in Payloads8, n \in {0, 1, 7}}
  \cup {p \o <<b>> : p \in Payloads8, b \in {0, 255}}
  \cup {p \o p : p \in Payloads8}

\* the values MarshalBinary is called on
BinaryValues(d) ==
  IF d = "rate" THEN Rates \cup {FFromNat(NatOf(123456)), ParseFloat(<<"0", ".", "1">>)}
  ELSE SmallValues \cup Near(<<>>) \cup Near(MaxUint64) \cup {NatOf(987654321), exbi}

\* the value a variable of the type holds before a call stores into it
PriorOf(d) == IF d = "rate" THEN RatePrior ELSE Prior

\* goroutines calling an atomic function on one address, 1..MaxGoroutines
MaxGoroutines == 3

Goroutines == 1..MaxGoroutines

\* counts stored and given to the atomic functions
AtomicCounts == {<<>>, One, NShl(One, 63), MaxUint64}

\* rates stored and given to AtomicSwapBitRate
AtomicRates == {FZero(FALSE), FFromNat(One), FInf(TRUE), FNaN}

AtomicValues(d) == IF d = "rate" THEN AtomicRates ELSE AtomicCounts

\* the atomic functions of a type
AtomicFns(d) == IF d = "rate" THEN {"Swap"} ELSE {"Add", "Sub", "Swap"}

\* durations a rate is multiplied by: those above, and a microsecond
CountDurations == Durations \cup {Dur(neg, NatOf(1000)) : neg \in BOOLEAN}

\* a call not yet made
Call(fn, arg) == [fn |-> fn, arg |-> arg, pc |-> "call", ret |-> <<>>]

\* rates multiplied by a duration: those above, and 2^60 bit/s and more
CountRates ==
  Rates \cup {FRound(neg, One, One, e) : neg \in BOOLEAN, e \in {60, 63, 64}}

\* the texts given to ParseBitRate: the inputs of the scanning calls and
\* the numeral 1, without a sign and with one
RateParseInputs ==
  {[sign |-> sg, num |-> n, sep |-> sp, unit |-> u] :
     sg \in {<<>>, <<"+">>, <<"-">>}, n \in RateNums \cup {<<"1">>},
     sp \in AllSeps, u \in RateWords}

(***************************************************************************)
(* State.  dom and val are the receiver of the calls (a BitCount or a      *)
(* ByteCount); txt is a text, produced by a formatting call or supplied by *)
(* the caller; dst is the variable the scanning calls store into; last     *)
(* records the last call and what it returned.                             *)
(*                                                                         *)
(* The values are immutable and the calls are pure: a behaviour is one     *)
(* call on the receiver, or one formatting call followed by one scanning   *)
(* call on its text; further calls would only repeat these.                *)
(*                                                                         *)
(* The atomic functions are the exception: they act on a variable shared   *)
(* by goroutines.  There val is the value the variable is created with,    *)
(* dst is the variable at addr and gor[g] is the call goroutine g makes    *)
(* once: its function, its argument, where it stands and what it got back. *)
(***************************************************************************)
VARIABLES dom, val, txt, txtBy, dst, last, gor

vars == <<dom, val, txt, txtBy, dst, last, gor>>

NoCall == [op |-> "none"]

NoText == [by |-> "none"]

\* no goroutine besides the caller's
NoGoroutines == <<>>

\* a receiver for the conversions and the derived quantities
Init ==
  /\ dom \in Doms
  /\ val \in EdgeValues \cup TierValues \cup SmallValues
  /\ txt = <<>>
  /\ txtBy = NoText
  /\ dst = Prior
  /\ last = NoCall
  /\ gor = NoGoroutines

\* ByteCount.BitCount()
DoBitCount ==
  /\ last = NoCall
  /\ dom = "byte"
  /\ last' = [op |-> "BitCount", r |-> ByteCountBitCount(val)]
  /\ UNCHANGED <<dom, val, txt, txtBy, dst, gor>>

\* BitCount.ByteCount()
DoByteCount ==
  /\ last = NoCall
  /\ dom = "bit"
  /\ last' = [op |-> "ByteCount", r |-> BitCountByteCount(val)]
  /\ UNCHANGED <<dom, val, txt, txtBy, dst, gor>>

\* CalcTime(rate)
DoCalcTime ==
  /\ last = NoCall
  /\ \E rate \in Rates :
       \E r \in CalcTime(dom, val, rate) :
         last' = [op |-> "CalcTime", rate |-> rate, r |-> r]
  /\ UNCHANGED <<dom, val, txt, txtBy, dst, gor>>

\* CalcBitRate(duration)
DoCalcBitRate ==
  /\ last = NoCall
  /\ \E d \in Durations :
       last' = [op |-> "CalcBitRate", d |-> d, r |-> CalcBitRate(dom, val, d)]
  /\ UNCHANGED <<dom, val, txt, txtBy, dst, gor>>

\* String()
DoString ==
  /\ txtBy = NoText
  /\ txt' = String(dom, val)
  /\ txtBy' = [by |-> "String"]
  /\ UNCHANGED <<dom, val, dst, last, gor>>

\* MarshalText()
DoMarshalText ==
  /\ txtBy = NoText
  /\ txt' = MarshalText(dom, val)
  /\ txtBy' = [by |-> "MarshalText"]
  /\ UNCHANGED <<dom, val, dst, last, gor>>

\* fmt.Sprintf with the verb s or S, a precision, and the flags '#' and ' '
DoFormat ==
  /\ txtBy = NoText
  /\ \E verb \in {"s", "S"}, precision \in -1..MaxPrec, full \in BOOLEAN, space \in BOOLEAN :
       /\ txt' = Format(dom, val, verb, precision, full, space)
       /\ txtBy' = [by |-> "Format", verb |-> verb, precision |-> precision,
                    full |-> full, space |-> space]
  /\ UNCHANGED <<dom, val, dst, last, gor>>

\* ParseBitCount / ParseByteCount and their Binary variants on the text
DoParse ==
  /\ dom \in Doms
  /\ txtBy # NoText
  /\ last = NoCall
  /\ \E verb \in {"s", "S"} :
       \E r \in Parse(dom, verb, txt) :
         last' = [op |-> "Parse", verb |-> verb, r |-> r]
  /\ UNCHANGED <<dom, val, txt, txtBy, dst, gor>>

\* dst.UnmarshalText(text): the value is stored only when the scan succeeds
DoUnmarshalText ==
  /\ dom \in Doms
  /\ txtBy # NoText
  /\ last = NoCall
  /\ \E r \in {Sscanf(dom, "s", txt)} :
       IF r.err # "nil"
       THEN /\ last' = [op |-> "UnmarshalText", err |-> r.err]
            /\ dst' = dst
       ELSE \E v \in r.vals :
              /\ last' = [op |-> "UnmarshalText", err |-> "nil"]
              /\ dst' = v
  /\ UNCHANGED <<dom, val, txt, txtBy, gor>>

\* fmt.Sscanf(text, "%" + verb, &dst): Scan stores through the pointer only
\* when it returns no error; rest is the input Scan has left unread
DoScan ==
  /\ dom \in Doms
  /\ txtBy # NoText
  /\ last = NoCall
  /\ \E verb \in {"s", "S", "u", "U"} :
       \E r \in {Sscanf(dom, verb, txt)} :
         IF r.err # "nil"
         THEN /\ last' = [op |-> "Scan", verb |-> verb, err |-> r.err, rest |-> r.rest]
              /\ dst' = dst
         ELSE \E v \in r.vals :
                /\ last' = [op |-> "Scan", verb |-> verb, err |-> "nil", rest |-> r.rest]
                /\ dst' = v
  /\ UNCHANGED <<dom, val, txt, txtBy, gor>>

\* the conversions between the two count types
Next ==
  \/ DoBitCount
  \/ DoByteCount

Spec == Init /\ [][Next]_vars

\* a receiver for the derived quantities
InitCalc ==
  /\ dom \in Doms
  /\ val \in EdgeValues \cup SmallValues \cup {kilo, exa, exbi}
  /\ txt = <<>>
  /\ txtBy = NoText
  /\ dst = Prior
  /\ last = NoCall
  /\ gor = NoGoroutines

NextCalc ==
  \/ DoCalcTime
  \/ DoCalcBitRate

SpecCalc == InitCalc /\ [][NextCalc]_vars

\* a value formatted, and the text read back
InitText ==
  /\ dom \in Doms
  /\ val \in TierValues \cup SmallValues \cup Near(<<>>) \cup Near(MaxUint64)
  /\ txt = <<>>
  /\ txtBy = NoText
  /\ dst = Prior
  /\ last = NoCall
  /\ gor = NoGoroutines

NextText ==
  \/ DoString
  \/ DoMarshalText
  \/ DoFormat
  \/ DoParse
  \/ DoUnmarshalText

SpecText == InitText /\ [][NextText]_vars

\* the formatting calls alone, with every precision and flag
NextFormat == DoFormat

SpecFormat == InitText /\ [][NextFormat]_vars

\* a text supplied by the caller, scanned
InitScan ==
  /\ dom \in Doms
  /\ val = Prior
  /\ \E in \in ScanInputs :
       /\ txt = in.num \o in.sep \o in.unit
       /\ txtBy = [by |-> "caller", num |-> in.num, sep |-> in.sep, unit |-> in.unit]
  /\ dst = Prior
  /\ last = NoCall
  /\ gor = NoGoroutines

NextScan ==
  \/ DoScan
  \/ DoParse
  \/ DoUnmarshalText

SpecScan == InitScan /\ [][NextScan]_vars

\* the text an error of Scan carries after "unknown unit: ", empty for the
\* other errors
ErrSuffix(r) == IF "suf" \in DOMAIN r THEN r.suf ELSE <<>>

\* fmt.Sscanf(txt, "%" + verb, &dst) for a BitRate dst
DoBitRateScan ==
  /\ dom = "rate"
  /\ txtBy # NoText
  /\ last = NoCall
  /\ \E verb \in {"s", "S", "u", "U"} :
       \E r \in {BitRateSscanf(verb, txt)} :
         IF r.err # "nil"
         THEN /\ last' = [op |-> "Scan", verb |-> verb, err |-> r.err, rest |-> r.rest,
                           suf |-> ErrSuffix(r)]
              /\ dst' = dst
         ELSE \E v \in r.vals :
                /\ last' = [op |-> "Scan", verb |-> verb, err |-> "nil", rest |-> r.rest]
                /\ dst' = v
  /\ UNCHANGED <<dom, val, txt, txtBy, gor>>

\* texts supplied by the caller and scanned into a BitRate
InitRateScan ==
  /\ dom = "rate"
  /\ val = RatePrior
  /\ \E in \in RateScanInputs :
       /\ txt = in.num \o in.sep \o in.unit
       /\ txtBy = [by |-> "caller", num |-> in.num, sep |-> in.sep, unit |-> in.unit]
  /\ dst = RatePrior
  /\ last = NoCall
  /\ gor = NoGoroutines

\* texts supplied by the caller and scanned into a value of any of the
\* three types
InitScanAll == InitScan \/ InitRateScan

NextScanAll ==
  \/ DoScan
  \/ DoParse
  \/ DoBitRateScan

SpecScanAll == InitScanAll /\ [][NextScanAll]_vars

\* dst.UnmarshalJSON(txt) for a BitCount dst
DoUnmarshalJSON ==
  /\ dom = "bit"
  /\ txtBy # NoText
  /\ last = NoCall
  /\ \E r \in UnmarshalJSON(dst, txt) :
       /\ last' = [op |-> "UnmarshalJSON", err |-> r.err]
       /\ dst' = r.v
  /\ UNCHANGED <<dom, val, txt, txtBy, gor>>

\* a JSON payload given to a BitCount; val keeps the value held before
InitJSON ==
  /\ dom = "bit"
  /\ val \in JSONPriors
  /\ txt \in JSONPayloads
  /\ txtBy = [by |-> "json"]
  /\ dst = val
  /\ last = NoCall
  /\ gor = NoGoroutines

NextJSON == DoUnmarshalJSON

SpecJSON == InitJSON /\ [][NextJSON]_vars

\* val.MarshalBinary()
DoMarshalBinary ==
  /\ txtBy = NoText
  /\ txt' = MarshalBinary(dom, val)
  /\ txtBy' = [by |-> "MarshalBinary"]
  /\ UNCHANGED <<dom, val, dst, last, gor>>

\* dst.UnmarshalBinary(txt)
DoUnmarshalBinary ==
  /\ txtBy # NoText
  /\ last = NoCall
  /\ \E r \in {UnmarshalBinary(dom, dst, txt)} :
       /\ last' = [op |-> "UnmarshalBinary", err |-> r.err]
       /\ dst' = r.v
  /\ UNCHANGED <<dom, val, txt, txtBy, gor>>

\* a value of one of the three types to encode, or a payload of the caller
\* to decode
InitBinary ==
  /\ dom \in Doms \cup {"rate"}
  /\ val \in BinaryValues(dom)
  /\ \/ txt = <<>> /\ txtBy = NoText
     \/ txt \in Payloads /\ txtBy = [by |-> "caller"]
  /\ dst = PriorOf(dom)
  /\ last = NoCall
  /\ gor = NoGoroutines

NextBinary ==
  \/ DoMarshalBinary
  \/ DoUnmarshalBinary

SpecBinary == InitBinary /\ [][NextBinary]_vars

\* CalcBitCount(duration), CalcByteCount(duration)
DoCalcCount ==
  /\ last = NoCall
  /\ \E kind \in Doms, d \in CountDurations :
       last' = [op |-> "CalcCount", kind |-> kind, d |-> d, r |-> CalcCount(kind, val, d)]
  /\ UNCHANGED <<dom, val, txt, txtBy, dst, gor>>

\* a rate, for the count it transfers in a duration
InitRate ==
  /\ dom = "rate"
  /\ val \in CountRates
  /\ txt = <<>>
  /\ txtBy = NoText
  /\ dst = RatePrior
  /\ last = NoCall
  /\ gor = NoGoroutines

NextRate == DoCalcCount

SpecRate == InitRate /\ [][NextRate]_vars

\* ParseBitRate(txt), ParseBitRateBinary(txt)
DoParseBitRate ==
  /\ dom = "rate"
  /\ txtBy # NoText
  /\ last = NoCall
  /\ \E verb \in {"s", "S"} :
       \E r \in ParseBitRate(verb, txt) :
         last' = [op |-> "ParseBitRate", verb |-> verb, r |-> r]
  /\ UNCHANGED <<dom, val, txt, txtBy, dst, gor>>

\* texts supplied by the caller and parsed as a rate
InitParseRate ==
  /\ dom = "rate"
  /\ val = RatePrior
  /\ \E in \in RateParseInputs :
       /\ txt = in.sign \o in.num \o in.sep \o in.unit
       /\ txtBy = [by |-> "caller", sign |-> in.sign, num |-> in.num, sep |-> in.sep,
                   unit |-> in.unit]
  /\ dst = RatePrior
  /\ last = NoCall
  /\ gor = NoGoroutines

NextParseRate == DoParseBitRate

SpecParseRate == InitParseRate /\ [][NextParseRate]_vars

\* goroutine g has got w back
Returned(g, w) == [gor EXCEPT ![g] = [@ EXCEPT !.pc = "done", !.ret = w]]

\* an addition made of a load and a later store of the sum
DoAddLoadThenStore(g) ==
  /\ gor[g].fn = "Add"
  /\ gor[g].pc # "done"
  /\ IF gor[g].pc = "call"
     THEN /\ gor' = [gor EXCEPT ![g] = [@ EXCEPT !.pc = "loaded", !.ret = dst]]
          /\ dst' = dst
     ELSE \E r \in {AddUint64(gor[g].ret, gor[g].arg)} :
            /\ dst' = r.mem
            /\ gor' = Returned(g, r.ret)
  /\ UNCHANGED <<dom, val, txt, txtBy, last>>

\* goroutine g calls AtomicAddBitCount(addr, arg) or AtomicAddByteCount
DoAtomicAdd(g) ==
  /\ gor[g].fn = "Add"
  /\ gor[g].pc = "call"
  /\ \E r \in {AtomicAdd(dst, gor[g].arg)} :
       /\ dst' = r.mem
       /\ gor' = Returned(g, r.ret)
  /\ UNCHANGED <<dom, val, txt, txtBy, last>>

\* goroutine g calls AtomicSubBitCount(addr, arg) or AtomicSubByteCount
DoAtomicSub(g) ==
  /\ gor[g].fn = "Sub"
  /\ gor[g].pc = "call"
  /\ \E r \in {AtomicSub(dst, gor[g].arg)} :
       /\ dst' = r.mem
       /\ gor' = Returned(g, r.ret)
  /\ UNCHANGED <<dom, val, txt, txtBy, last>>

\* a swap made of a load and a later store
DoSwapLoadThenStore(g) ==
  /\ gor[g].fn = "Swap"
  /\ gor[g].pc # "done"
  /\ IF gor[g].pc = "call"
     THEN /\ gor' = [gor EXCEPT ![g] = [@ EXCEPT !.pc = "loaded", !.ret = ValueOf(dom, dst)]]
          /\ dst' = dst
     ELSE /\ dst' = WordOf(dom, gor[g].arg)
          /\ gor' = [gor EXCEPT ![g] = [@ EXCEPT !.pc = "done"]]
  /\ UNCHANGED <<dom, val, txt, txtBy, last>>

\* goroutine g calls AtomicSwapBitCount(addr, arg), AtomicSwapByteCount or
\* AtomicSwapBitRate
DoAtomicSwap(g) ==
  /\ gor[g].fn = "Swap"
  /\ gor[g].pc = "call"
  /\ \E r \in {AtomicSwap(dom, dst, gor[g].arg)} :
       /\ dst' = r.mem
       /\ gor' = Returned(g, r.ret)
  /\ UNCHANGED <<dom, val, txt, txtBy, last>>

\* a variable of one of the three types holding val, and goroutines that
\* each call one atomic function on it once
InitAtomic ==
  /\ dom \in Doms \cup {"rate"}
  /\ val \in AtomicValues(dom)
  /\ dst = WordOf(dom, val)
  /\ txt = <<>>
  /\ txtBy = NoText
  /\ last = NoCall
  /\ \E fn \in AtomicFns(dom) :
       gor \in [Goroutines -> {Call(fn, a) : a \in AtomicValues(dom)}]

NextAtomic ==
  \E g \in Goroutines :
    \/ DoAtomicAdd(g)
    \/ DoAtomicSub(g)
    \/ DoAtomicSwap(g)

SpecAtomic == InitAtomic /\ [][NextAtomic]_vars

\* the nodes of a document given to UnmarshalYAML and UnmarshalJSON: a
\* null, a number, a string, and a node of another type
NodeStrings(d) ==
  IF d = "rate"
  THEN {n \o sp \o u : n \in {<<>>, <<"1", "1", "4">>, <<"-", "I", "n", "f">>}, sp \in Seps,
                       u \in {<<>>, <<"k", "b", "i", "t", "/", "s">>, <<"k", "i", "l", "o", "b", "i", "t", "s", " ", "p", "e", "r", " ", "s", "e", "c", "o", "n", "d">>,
                              <<"j", "i", "g", "o", "w", "a", "t", "t", "s">>, <<"b", "i", "t", " ", "p", "e", "r">>}}
  ELSE {n \o sp \o u : n \in {<<>>, <<"2", "1", "0">>, <<"1", ".", "5">>}, sp \in Seps,
                       u \in {<<>>, <<"k", "B">>, <<"k", "b", "i", "t">>, <<"b", "i", "t">>, <<"x">>}}

NodeNumbers(d) ==
  IF d = "rate" THEN {FZero(FALSE), FFromNat(kilo), FNeg(FFromNat(One))}
  ELSE {<<>>, kilo, MaxUint64}

Nodes(d) ==
  {[kind |-> k, u |-> <<>>, s |-> <<>>] : k \in {"null", "other"}}
  \cup {[kind |-> "number", u |-> u, s |-> <<>>] : u \in NodeNumbers(d)}
  \cup {[kind |-> "string", u |-> <<>>, s |-> t] : t \in NodeStrings(d)}

\* br.UnmarshalText(txt) for a BitRate dst
DoBitRateUnmarshalText ==
  /\ dom = "rate"
  /\ txtBy # NoText
  /\ last = NoCall
  /\ \E r \in {BitRateSscanf("s", txt)} :
       IF r.err # "nil"
       THEN /\ last' = [op |-> "UnmarshalText", err |-> r.err]
            /\ dst' = dst
       ELSE \E v \in r.vals :
              /\ last' = [op |-> "UnmarshalText", err |-> "nil"]
              /\ dst' = v
  /\ UNCHANGED <<dom, val, txt, txtBy, gor>>

\* dst.UnmarshalYAML(unmarshal) for a BitCount dst, unmarshal decoding the
\* node of the state
DoUnmarshalYAML ==
  /\ dom = "bit"
  /\ txtBy.by = "node"
  /\ txtBy.kind # "null"
  /\ last = NoCall
  /\ \E r \in UnmarshalYAML(dst, [kind |-> txtBy.kind, u |-> txtBy.u, s |-> txt]) :
       /\ last' = [op |-> "UnmarshalYAML", err |-> r.err]
       /\ dst' = r.v
  /\ UNCHANGED <<dom, val, txt, txtBy, gor>>

\* dst.UnmarshalJSON and dst.UnmarshalYAML for a ByteCount or a BitRate dst
DoStructuredDecode ==
  /\ dom \in {"byte", "rate"}
  /\ txtBy.by = "node"
  /\ last = NoCall
  /\ \E op \in {"UnmarshalJSON", "UnmarshalYAML"} :
       /\ op = "UnmarshalYAML" => txtBy.kind # "null"
       /\ \E r \in StructuredDecode(dom, dst, [kind |-> txtBy.kind, u |-> txtBy.u, s |-> txt]) :
            /\ last' = [op |-> op, err |-> r.err]
            /\ dst' = r.v
  /\ UNCHANGED <<dom, val, txt, txtBy, gor>>

\* a node of a document, decoded into a variable of one of the three types
InitNode ==
  /\ dom \in Doms \cup {"rate"}
  /\ val = IF dom = "rate" THEN RatePrior ELSE Prior
  /\ \E node \in Nodes(dom) :
       /\ txt = node.s
       /\ txtBy = [by |-> "node", kind |-> node.kind, u |-> node.u]
  /\ dst = val
  /\ last = NoCall
  /\ gor = NoGoroutines

\* a text, a JSON payload or a node decoded into a variable holding a value
InitDecode == InitScanAll \/ InitJSON \/ InitNode

NextDecode ==
  \/ DoScan
  \/ DoBitRateScan
  \/ DoParse
  \/ DoUnmarshalText
  \/ DoBitRateUnmarshalText
  \/ DoUnmarshalJSON
  \/ DoUnmarshalYAML
  \/ DoStructuredDecode

SpecDecode == InitDecode /\ [][NextDecode]_vars

(***************************************************************************)
(* Properties: conversions between bits and bytes.                         *)
(***************************************************************************)
\* the largest byte count whose bit count fits 64 bits, 0x1FFFFFFFFFFFFFFF
MaxBytes == NSub(NShl(One, 61), One)

\* C1: ByteCount.BitCount() of v <= 0x1FFFFFFFFFFFFFFF succeeds with exactly
\* v * 8 (so that the result divided by 8 is v again); of a larger v it
\* returns (0, ErrOutOfRange), never v * 8 reduced modulo 2^64.
C1_BitCountExactOrOutOfRange ==
  last.op = "BitCount" =>
    IF NLe(val, MaxBytes)
    THEN /\ last.r.err = "nil"
         /\ last.r.val = NMulSmall(val, 8)
         /\ NDivSmall(last.r.val, 8) = [q |-> val, r |-> 0]
    ELSE last.r = [val |-> <<>>, err |-> "ErrOutOfRange"]

\* the smallest byte count out of range is refused
C1_Witness ==
  /\ last.op = "BitCount"
  /\ val = NShl(One, 61)
  /\ last.r = [val |-> <<>>, err |-> "ErrOutOfRange"]

\* C2: BitCount.ByteCount() of any v returns whole bytes and remaining bits
\* with bytes * 8 + bits = v and 0 <= bits <= 7; the call has no error result.
C2_ByteCountDecomposes ==
  last.op = "ByteCount" =>
    /\ NAdd(NMulSmall(last.r.bytes, 8), last.r.bits) = val
    /\ NLe(last.r.bits, NatOf(7))

\* the largest bit count splits into 0x1FFFFFFFFFFFFFFF bytes and 7 bits
C2_Witness ==
  /\ last.op = "ByteCount"
  /\ val = MaxUint64
  /\ last.r = [bytes |-> MaxBytes, bits |-> NatOf(7)]

(***************************************************************************)
(* Properties: derived quantities.                                         *)
(***************************************************************************)
\* the count in bits, as an integer of any width
BitsOf(d, c) == IF d = "bit" THEN c ELSE NMulSmall(c, 8)

\* the exact transfer time in nanoseconds at a finite rate that is not
\* zero, bits * 10^9 / rate, as the fraction num / den of its magnitude
ExactNs(d, c, rate) ==
  [num |-> NShl(NMul(BitsOf(d, c), Second), IF rate.e < 0 THEN 0 - rate.e ELSE 0),
   den |-> NShl(rate.m, IF rate.e < 0 THEN 0 ELSE rate.e),
   neg |-> rate.neg]

\* the fraction lies outside [-2^63, 2^63 - 1]
OutsideInt64(q) ==
  IF q.neg /\ q.num # <<>> THEN NLt(NShl(q.den, 63), q.num)
  ELSE NLe(NShl(q.den, 63), q.num)

\* C6: CalcTime with a zero rate returns (0, ErrDivZeroBitRate) for every
\* count, zero included, whatever the range check would say.
C6_ZeroRateIsDivZero ==
  (last.op = "CalcTime" /\ FIsZero(last.rate)) =>
    last.r = [d |-> DZero, err |-> "ErrDivZeroBitRate"]

\* a zero count at the rate -0
C6_Witness ==
  /\ last.op = "CalcTime"
  /\ last.rate = FZero(TRUE)
  /\ val = <<>>
  /\ last.r.err = "ErrDivZeroBitRate"

\* C7: at a finite rate that is not zero, a transfer time in nanoseconds
\* outside the int64 range, above 2^63 - 1 (2^63 itself included) or below
\* -2^63, makes CalcTime return (0, ErrOutOfRange): an overflow is an
\* error, never a wrapped or saturated duration.
C7_OverflowIsError ==
  (/\ last.op = "CalcTime"
   /\ ~FIsZero(last.rate)
   /\ last.rate.cls = "fin"
   /\ OutsideInt64(ExactNs(dom, val, last.rate)))
  => last.r = [d |-> DZero, err |-> "ErrOutOfRange"]

\* C8: CalcBitRate has no error result; a zero duration gives 0 for a zero
\* count and +Inf for any other count; any other duration d gives the
\* count in bits divided by d in seconds (to the precision of float64:
\* within 2^-50 of the exact quotient, relatively).
C8_BitRateOfDuration ==
  last.op = "CalcBitRate" =>
    IF last.d = DZero
    THEN last.r = (IF val = <<>> THEN FZero(FALSE) ELSE FInf(FALSE))
    ELSE /\ last.r.cls = "fin"
         /\ val = <<>> => FIsZero(last.r)
         /\ val # <<>> =>
              LET exact == NMul(BitsOf(dom, val), Second)
                  got   == NMul(last.r.m, last.d.mag)
                  sh    == IF last.r.e < 0 THEN 0 - last.r.e ELSE 0
                  a     == NShl(exact, sh)
                  b     == NShl(got, sh + last.r.e)
                  diff  == IF NLe(a, b) THEN NSub(b, a) ELSE NSub(a, b)
              IN  /\ last.r.neg = last.d.neg
                  /\ NLe(NShl(diff, 50), a)

\* a count that is not zero over the duration 0
C8_Witness ==
  /\ last.op = "CalcBitRate"
  /\ last.d = DZero
  /\ val # <<>>
  /\ last.r = FInf(FALSE)

(***************************************************************************)
(* Properties: a value formatted and read back.                            *)
(***************************************************************************)
\* the threshold of the SI tier String() prints v in, 1 below the first
SITier(v) ==
  IF NLt(v, kilo) THEN One
  ELSE CHOOSE th \in Range(siPrefix.thresholds) :
         /\ NLe(th, v)
         /\ \A u \in Range(siPrefix.thresholds) : NLe(u, v) => NLe(u, th)

\* the text of String() has been parsed with ParseBitCount / ParseByteCount
StringParsed == txtBy.by = "String" /\ last.op = "Parse" /\ last.verb = "s"

\* C3 as stated: parsing the text of String() returns exactly the value,
\* for every value.
C3_CompactRoundTrip == StringParsed => last.r = [v |-> val, err |-> "nil"]

\* C3: parsing the text of String() never fails; it returns exactly the
\* value when the value is below 1000 or a whole multiple of the threshold
\* of its SI tier, and otherwise a value less than a tenth of that
\* threshold away from it.
C3_CompactRoundTripOfWhole ==
  StringParsed =>
    LET th   == SITier(val)
        w    == last.r.v
        diff == IF NLe(w, val) THEN NSub(val, w) ELSE NSub(w, val)
    IN  /\ last.r.err = "nil"
        /\ NDivMod(val, th).r = <<>> => w = val
        /\ NLt(NMulSmall(diff, 10), th)

\* 18 EB, printed as "18.0 EB", comes back
C3_Witness ==
  /\ StringParsed
  /\ dom = "byte"
  /\ val = NMulSmall(exa, 18)
  /\ txt = <<"1", "8", ".", "0", " ", "E", "B">>
  /\ last.r = [v |-> val, err |-> "nil"]

\* the place of the first space of a text, 0 when it has none
FirstSpace(s) == IF \E i \in 1..Len(s) : s[i] = " "
                 THEN CHOOSE i \in 1..Len(s) : s[i] = " " /\ \A j \in 1..(i - 1) : s[j] # " "
                 ELSE 0

\* C4: MarshalText yields the decimal digits of the value, one space and
\* the word "bit" (BitCount) or "B" (ByteCount); UnmarshalText of that text
\* returns no error and stores exactly the value, 2^64 - 1 included.
C4_TextRoundTrip ==
  txtBy.by = "MarshalText" =>
    LET sp     == FirstSpace(txt)
        digits == SubSeq(txt, 1, sp - 1)
        word   == SubSeq(txt, sp + 1, Len(txt))
    IN  /\ sp > 1
        /\ \A i \in 1..Len(digits) : digits[i] \in DigitSet
        /\ Len(digits) > 1 => digits[1] # "0"
        /\ DecimalOf(digits) = val
        /\ word = (IF dom = "bit" THEN <<"b", "i", "t">> ELSE <<"B">>)
        /\ last.op = "UnmarshalText" => (last.err = "nil" /\ dst = val)

\* the largest ByteCount comes back from its text
C4_Witness ==
  /\ txtBy.by = "MarshalText"
  /\ last.op = "UnmarshalText"
  /\ dom = "byte"
  /\ val = MaxUint64
  /\ val # Prior
  /\ dst = val

\* C5: a tier threshold formatted with its own prefix table, precision 0
\* and the space flag is "1 <prefix><unit>", and ParseBitCount /
\* ParseByteCount of that text returns exactly the threshold.
C5_ThresholdRoundTrip ==
  (txtBy.by = "Format" /\ txtBy.precision = 0 /\ txtBy.space) =>
    LET p == IF txtBy.verb = "s" THEN siPrefix ELSE binPrefix
    IN  \A i \in 1..6 :
          val = p.thresholds[i] =>
            /\ txt = <<"1", " ">>
                     \o (IF txtBy.full THEN p.preFull[i] ELSE p.preAbbr[i])
                     \o (IF dom = "bit" THEN <<"b", "i", "t">>
                         ELSE IF txtBy.full THEN <<"b", "y", "t", "e">> ELSE <<"B">>)
            /\ (last.op = "Parse" /\ last.verb = "s") =>
                 last.r = [v |-> val, err |-> "nil"]

\* 2^60 bits, printed as "1 Eibit", parse as 2^60 bits
C5_Witness ==
  /\ txtBy = [by |-> "Format", verb |-> "S", precision |-> 0, full |-> FALSE, space |-> TRUE]
  /\ dom = "bit"
  /\ val = exbi
  /\ txt = <<"1", " ", "E", "i", "b", "i", "t">>
  /\ last = [op |-> "Parse", verb |-> "s", r |-> [v |-> exbi, err |-> "nil"]]

(***************************************************************************)
(* Properties: texts scanned.                                              *)
(***************************************************************************)
\* the spellings of the base unit, in lower case
BaseWords(d) ==
  IF d = "bit" THEN {<<"b", "i", "t">>, <<"b", "i", "t", "s">>}
  ELSE {<<"b">>, <<"b", "y", "t", "e">>, <<"b", "y", "t", "e", "s">>}

\* the text of the caller has been scanned with one of the four verbs
CallerScanned == txtBy.by = "caller" /\ last.op = "Scan"

\* the unit word of the text is part of what Scan reads as the count
UnitRead == last.verb \in {"s", "S"} \/ txtBy.sep = <<>>

\* C9: a numeral with a decimal point whose unit is the base unit, written
\* or assumed by %u / %U, makes Scan return the non-integer count error and
\* store nothing, with each of the four verbs.
C9_FractionOfBaseUnitRejected ==
  (/\ CallerScanned
   /\ "." \in Range(txtBy.num)
   /\ \/ UnitRead /\ ToLower(txtBy.unit) \in BaseWords(dom)
      \/ last.verb \in {"u", "U"} /\ (txtBy.unit = <<>> \/ txtBy.sep # <<>>))
  => (last.err = "non-integer count" /\ dst = Prior)

\* ".5" alone read with %U into a ByteCount
C9_Witness ==
  /\ CallerScanned
  /\ dom = "byte"
  /\ last.verb = "U"
  /\ txt = <<".", "5">>
  /\ last.err = "non-integer count"
  /\ dst = Prior

\* C10: an integer literal n with a prefixed unit of factor f is stored as
\* exactly n * f when that is at most 2^64 - 1, and is an error otherwise.
C10_NoSilentWrap ==
  (/\ CallerScanned
   /\ UnitRead
   /\ "." \notin Range(txtBy.num)
   /\ UnitIndex(ScanUnitRe(dom), txtBy.unit, 1) > 1)
  => LET ent  == ScanUnitRe(dom)[UnitIndex(ScanUnitRe(dom), txtBy.unit, 1)]
         prod == NMul(DecimalOf(txtBy.num), UnitFactor(ent, last.verb))
     IN  IF NLe(prod, MaxUint64)
         THEN last.err = "nil" /\ dst = prod
         ELSE last.err # "nil" /\ dst = Prior

(***************************************************************************)
(* Properties: the spellings of the units.                                 *)
(***************************************************************************)
\* the tiers above the base unit are numbered 1..6 (SI) and 7..12 (binary)
TierPrefix(k) ==
  IF k <= 6 THEN [abbr |-> siPrefix.preAbbr[k], full |-> siPrefix.preFull[k]]
  ELSE [abbr |-> binPrefix.preAbbr[k - 6], full |-> binPrefix.preFull[k - 6]]

\* the documented spellings of tier k of a domain, in lower case: the
\* abbreviation, the full word and its plural
Spellings(d, k) ==
  IF d = "bit"
  THEN {ToLower(TierPrefix(k).abbr) \o <<"b", "i", "t">>, ToLower(TierPrefix(k).abbr) \o <<"b", "i", "t", "s">>,
        TierPrefix(k).full \o <<"b", "i", "t">>, TierPrefix(k).full \o <<"b", "i", "t", "s">>}
  ELSE {ToLower(TierPrefix(k).abbr) \o <<"b">>, TierPrefix(k).full \o <<"b", "y", "t", "e">>,
        TierPrefix(k).full \o <<"b", "y", "t", "e", "s">>}

\* the tier a word spells, 0 when it spells none
TierOfWord(d, u) ==
  IF \E k \in 1..12 : ToLower(u) \in Spellings(d, k)
  THEN CHOOSE k \in 1..12 : ToLower(u) \in Spellings(d, k)
  ELSE 0

\* the factor of tier k under a verb
TierFactor(k, verb) ==
  IF k > 6 THEN binPrefix.thresholds[k - 6]
  ELSE IF verb \in {"s", "u"} THEN siPrefix.thresholds[k]
  ELSE binPrefix.thresholds[k]

\* the abbreviation of tier k as the formatter prints it
TierAbbr(d, k) == TierPrefix(k).abbr \o (IF d = "bit" THEN unitBitAbbr ELSE unitByteAbbr)

\* the text of the caller is an integer literal
IntegerLiteral == txtBy.num # <<>> /\ \A i \in 1..Len(txtBy.num) : txtBy.num[i] \in DigitSet

\* C11: with %s and %S, an integer literal with a spelling of a tier, in
\* any letter case, abbreviated, in full or in the plural, glued to the
\* literal or after one space, has the outcome of the literal glued to the
\* abbreviation of the tier, and the value literal * factor when that fits
\* 64 bits.
C11_SpellingsAgree ==
  (/\ CallerScanned
   /\ last.verb \in {"s", "S"}
   /\ IntegerLiteral
   /\ txtBy.sep \in Seps
   /\ TierOfWord(dom, txtBy.unit) > 0)
  => LET k    == TierOfWord(dom, txtBy.unit)
         ref  == Sscanf(dom, last.verb, txtBy.num \o TierAbbr(dom, k))
         prod == NMul(DecimalOf(txtBy.num), TierFactor(k, last.verb))
     IN  /\ last.err = ref.err
         /\ last.err = "nil" => dst \in ref.vals
         /\ NLe(prod, MaxUint64) => (last.err = "nil" /\ dst = prod)

\* "210 kilobytes" is 210000 bytes
C11_Witness ==
  /\ CallerScanned
  /\ dom = "byte"
  /\ last.verb = "s"
  /\ txt = <<"2", "1", "0", " ", "k", "i", "l", "o", "b", "y", "t", "e", "s">>
  /\ last.err = "nil"
  /\ dst = NatOf(210000)

\* the verb of the other base (s and S, u and U), and the verb of the other
\* space handling (s and u, S and U)
OtherBase(verb) ==
  IF verb = "s" THEN "S" ELSE IF verb = "S" THEN "s" ELSE IF verb = "u" THEN "U" ELSE "u"

OtherSpace(verb) ==
  IF verb = "s" THEN "u" ELSE IF verb = "u" THEN "s" ELSE IF verb = "S" THEN "U" ELSE "S"

\* the unit word of the text is a spelling of the base unit or of a binary tier
BaseOrBinaryWord ==
  ToLower(txtBy.unit) \in BaseWords(dom) \/ TierOfWord(dom, txtBy.unit) > 6

\* the first token of the text ends in letters
SuffixInFirstToken ==
  /\ txtBy.sep = <<>>
  /\ txtBy.unit # <<>>
  /\ \A i \in 1..Len(txtBy.unit) : txtBy.unit[i] \in LetterSet

UnrecognizedWord ==
  /\ txtBy.unit # <<>>
  /\ \A i \in 1..Len(txtBy.unit) : txtBy.unit[i] \in LetterSet
  /\ ToLower(txtBy.unit) \notin BaseWords(dom)
  /\ TierOfWord(dom, txtBy.unit) = 0

\* C13: a numeral that fits 64 bits followed by an alphabetic unit token that is not, as a
\* whole and without regard to case, a recognized spelling of one of the 13
\* tiers makes Scan fail with the unknown unit error.
C13_UnknownUnitRejected ==
  (/\ CallerScanned
   /\ UnitRead
   /\ txtBy.num # <<>>
   /\ IntegerLiteral => NLe(DecimalOf(txtBy.num), MaxUint64)
   /\ txtBy.sep \in Seps
   /\ UnrecognizedWord)
  => last.err = "unknown unit"

(***************************************************************************)
(* Properties: the second token of the lenient verbs                       *)
(***************************************************************************)
\* the word w is made of letters only
Alphabetic(w) == \A i \in 1..Len(w) : w[i] \in LetterSet

\* the first token of the text is a numeral without a unit suffix
NumeralOnlyToken ==
  /\ txtBy.num # <<>>
  /\ \/ txtBy.sep # <<>>
     \/ \A i \in 1..Len(txtBy.unit) : txtBy.unit[i] \in DigitSet

\* C14: with %s and %S, when the first token is a numeral only, Scan
\* succeeds only if exactly one space and then a non-empty alphabetic token
\* follow; the end of the input, another character, two spaces or a second
\* token that is not alphabetic make it fail and store nothing.
C14_SuffixMandatory ==
  (CallerScanned /\ last.verb \in {"s", "S"} /\ NumeralOnlyToken)
  => /\ last.err = "nil" =>
          (txtBy.sep = <<" ">> /\ txtBy.unit # <<>> /\ Alphabetic(txtBy.unit))
     /\ (txtBy.sep # <<" ">> \/ txtBy.unit = <<>> \/ ~Alphabetic(txtBy.unit))
          => (last.err # "nil" /\ dst = Prior)

\* "210  KB", with two spaces, read with %s
C14_Witness ==
  /\ CallerScanned
  /\ last.verb = "s"
  /\ txt = <<"2", "1", "0", " ", " ", "K", "B">>
  /\ last.err = "no unit suffix"
  /\ dst = Prior

(***************************************************************************)
(* Properties: the strict verbs u and U, for the three types.              *)
(***************************************************************************)
\* the first token of the text, delimited by white space, and what follows
FirstToken == Token(TRUE, txt)

\* what the call recorded in last returns for another text
ScanOf(text) ==
  IF dom = "rate" THEN BitRateSscanf(last.verb, text) ELSE Sscanf(dom, last.verb, text)

\* the first token is an integer numeral and nothing else
DigitsOnlyToken ==
  FirstToken.tok # <<>> /\ \A i \in 1..Len(FirstToken.tok) : FirstToken.tok[i] \in DigitSet

\* the value of a token of digits taken as a quantity of the base unit
BaseQuantity ==
  IF dom = "rate" THEN FFromNat(DecimalOf(FirstToken.tok)) ELSE DecimalOf(FirstToken.tok)

\* the call read the first token and nothing after it, returned what it
\* returns for that token alone, and took a token of digits as a quantity of
\* the base unit
OnlyFirstTokenRead ==
  /\ last.rest = FirstToken.rest
  /\ last.err = ScanOf(FirstToken.tok).err
  /\ last.err = "nil" => dst \in ScanOf(FirstToken.tok).vals
  /\ (DigitsOnlyToken /\ (dom = "rate" \/ NLe(DecimalOf(FirstToken.tok), MaxUint64)))
     => (last.err = "nil" /\ dst = BaseQuantity)

ThreeTokenPath ==
  /\ dom = "rate"
  /\ bitRateScanTokenRe0(FirstToken.tok).ok
  /\ bitRateScanTokenRe0(FirstToken.tok).num # <<>>
  /\ bitRateScanTokenRe0(FirstToken.tok).unit # <<>>
  /\ UnitIndex(bitRateScanUnitRe, bitRateScanTokenRe0(FirstToken.tok).unit, 1) = 0

Magnitude == SubSeq(txt, 1, RunLen(txt, 1, DigitSet \cup {"."}))

\* the unit of the formatted text: what follows the magnitude and the space
UnitPrinted ==
  SubSeq(txt, Len(Magnitude) + (IF txtBy.space THEN 2 ELSE 1), Len(txt))

\* C17: a value below the first threshold of the table of the verb (1000
\* for %s, 1024 for %S) is printed as its plain decimal integer, without
\* a decimal point, whatever the precision (none, 0 or more).
C17_BaseUnitHasNoFraction ==
  (/\ txtBy.by = "Format"
   /\ NLt(val, NatOf(IF txtBy.verb = "s" THEN 1000 ELSE 1024)))
  => /\ "." \notin Range(txt)
     /\ Magnitude # <<>>
     /\ Len(Magnitude) > 1 => Magnitude[1] # "0"
     /\ DecimalOf(Magnitude) = val

\* 1023 bytes printed with "% .1S"
C17_Witness ==
  /\ dom = "byte"
  /\ val = NatOf(1023)
  /\ txtBy = [by |-> "Format", verb |-> "S", precision |-> 1, full |-> FALSE, space |-> TRUE]
  /\ txt = <<"1", "0", "2", "3", " ", "B">>

\* the value is exactly one unit of the table of the verb: 1, or a power
\* 1000^k (verb s) or 1024^k (verb S), k in 1..6
ExactlyOneUnit ==
  \/ val = One
  \/ \E k \in 1..6 : val = NPow(IF txtBy.verb = "s" THEN 1000 ELSE 1024, k)

\* C18: with the flag '#' (full names) the unit word is in the singular
\* exactly when the value is 1 or equal to the threshold of its tier, and
\* ends in the plural "s" for every other value, 0 and the values whose
\* magnitude only rounds to 1 included; without the flag no "s" is added.
C18_PluralUnlessExactlyOne ==
  txtBy.by = "Format"
  => /\ txtBy.full => (HasSuffix(txt, <<"s">>) <=> ~ExactlyOneUnit)
     /\ txtBy.full =>
          \E k \in 0..6 :
            UnitPrinted =
              (IF k = 0 THEN <<>>
               ELSE IF txtBy.verb = "s" THEN siPrefix.preFull[k] ELSE binPrefix.preFull[k])
              \o (IF dom = "bit" THEN <<"b", "i", "t">> ELSE <<"b", "y", "t", "e">>)
              \o (IF ExactlyOneUnit THEN <<>> ELSE <<"s">>)
     /\ ~txtBy.full => ~HasSuffix(txt, <<"s">>)

\* 1024 bytes printed with "%# .1s": the magnitude rounds to 1.0, in the
\* plural
C18_Witness ==
  /\ dom = "byte"
  /\ val = NatOf(1024)
  /\ txtBy = [by |-> "Format", verb |-> "s", precision |-> 1, full |-> TRUE, space |-> TRUE]
  /\ txt = <<"1", ".", "0", " ", "k", "i", "l", "o", "b", "y", "t", "e", "s">>

(***************************************************************************)
(* Properties: the diagnoses of the scanning calls.                        *)
(***************************************************************************)
\* a scanning call (Scan or Parse) has acted on a text of the caller
TextScanned == txtBy.by = "caller" /\ last.op \in {"Scan", "Parse"}

\* the error the call returned: Parse wraps the error of Scan with %w
Diagnosis == IF last.op = "Parse" THEN last.r.err ELSE last.err

\* the first token of the text matched against the token expression
Tok1 ==
  IF dom = "rate" THEN bitRateScanTokenRe0(FirstToken.tok)
  ELSE [ok   |-> TokenRe0(FirstToken.tok).ok,
        num  |-> TokenRe0(FirstToken.tok).num,
        unit |-> TokenRe0(FirstToken.tok).unit]

\* the defect of a numeral num with the unit word w: 5 for a fraction of
\* the base unit, 4 for a word that spells no unit, 6 for the first word
\* of a 3-token rate spelling not followed by "per sec(ond)", 0 for none
WordDefect(num, w) ==
  IF dom = "rate"
  THEN IF UnitIndex(bitRateScanUnitRe, w, 1) > 0 THEN 0
       ELSE IF UnitIndex(bitRateScanUnit3Re, w, 1) = 0 THEN 4
       ELSE IF Diagnosis # "nil" THEN 6 ELSE 0
  ELSE IF ToLower(w) \in BaseWords(dom) THEN (IF "." \in Range(num) THEN 5 ELSE 0)
  ELSE IF "." \notin Range(num) /\ ~NLe(DecimalOf(num), MaxUint64) THEN 0
  ELSE IF TierOfWord(dom, w) = 0 THEN 4
  ELSE 0

\* the defect of the text for the verb of the call, one of the seven
\* conditions: 1 empty input, 2 malformed first token, 3 unit suffix
\* missing, 4 unit not recognized, 5 fraction of the base unit, 6 malformed
\* 3-token rate suffix, 7 two spaces after the numeral; 0 when the text has
\* none of them
Defect ==
  IF FirstToken.tok = <<>> THEN 1
  ELSE IF ~Tok1.ok \/ Tok1.num = <<>> THEN 2
  ELSE IF Tok1.unit # <<>> THEN WordDefect(Tok1.num, Tok1.unit)
  ELSE IF last.verb \in {"u", "U"}
       THEN (IF dom # "rate" /\ "." \in Range(Tok1.num) THEN 5 ELSE 0)
  ELSE IF FirstToken.rest \in {<<>>, <<" ">>} THEN 3
  ELSE IF HasPrefix(FirstToken.rest, <<" ", " ">>) THEN 7
  ELSE IF Head(FirstToken.rest) # " " THEN 0
  ELSE IF Token(FALSE, Tail(FirstToken.rest)).tok = <<>> THEN 0
  ELSE IF \E i \in 1..Len(Token(FALSE, Tail(FirstToken.rest)).tok) :
            Token(FALSE, Tail(FirstToken.rest)).tok[i]
              \notin (IF dom = "rate" THEN RateUnitSet ELSE LetterSet)
       THEN 0
  ELSE WordDefect(Tok1.num, Token(FALSE, Tail(FirstToken.rest)).tok)

\* texts with one defect each, and the diagnoses Scan gives for them
DefectTexts(c) ==
  IF c = 1 THEN {<<>>}
  ELSE IF c = 2 THEN {<<"+", "9", "9", "9", "9">>, <<"f", "a", "s", "t", " ", "b", "i", "t">>}
  ELSE IF c = 3 THEN {<<"9", "9", "9">>, <<"9", "9", "9", " ">>}
  ELSE IF c = 4 THEN {<<"1", ".", "2", "1", "j", "i", "g", "o", "w", "a", "t", "t", "s">>, <<"1", ".", "2", "1", " ", "j", "i", "g", "o", "w", "a", "t", "t", "s">>}
  ELSE IF c = 5 THEN {<<"1", ".", "5", " ", "b", "i", "t">>, <<".", "5", "b", "i", "t", "s">>}
  ELSE IF c = 6 THEN {<<"1", "1", "4", "b", "i", "t", " ", "p", "e", "r", " ", "x", "x", "x">>, <<"1", "1", "4", " ", "k", "i", "l", "o", "b", "i", "t", "s", " ", "p", "r", "e", " ", "s", "e", "c", "o", "n", "d">>}
  ELSE {<<"9", "9", "9", " ", " ", "G", "b", "i", "t">>}

DefectDiagnoses(c) ==
  IF c = 6 THEN {BitRateSscanf("s", t).err : t \in DefectTexts(c)}
  ELSE {Sscanf("bit", "s", t).err : t \in DefectTexts(c)}

DiagnosisOf(c) ==
  IF c = 1 THEN {"no input"}
  ELSE IF c = 2 THEN {"invalid expr"}
  ELSE IF c = 3 THEN {"no unit suffix: EOF", "no unit suffix"}
  ELSE IF c = 4 THEN {"unknown unit"}
  ELSE IF c = 5 THEN {"non-integer count"}
  ELSE IF c = 6 THEN {"unknown unit"}
  ELSE {"no unit suffix"}

C19_NullIsNoOp ==
  last.op = "UnmarshalJSON"
  => /\ txt = <<"n", "u", "l", "l">> => (last.err = "nil" /\ dst = val)
     /\ (/\ txt # <<>>
         /\ \A i \in 1..Len(txt) : txt[i] \in DigitSet
         /\ (Len(txt) = 1 \/ txt[1] # "0")
         /\ NLe(DecimalOf(txt), MaxUint64))
        => (last.err = "nil" /\ dst = DecimalOf(txt))
     /\ (/\ Len(txt) >= 2
         /\ txt[1] = "\"" /\ txt[Len(txt)] = "\""
         /\ \A i \in 2..(Len(txt) - 1) : txt[i] \in NonSpace \cup {" "})
        => LET r == Sscanf("bit", "s", SubSeq(txt, 2, Len(txt) - 1))
           IN  IF r.err = "nil" THEN last.err = "nil" /\ dst \in r.vals
               ELSE last.err # "nil" /\ dst = val

\* null given to a BitCount holding 2^64 - 1
C19_Witness ==
  /\ last.op = "UnmarshalJSON"
  /\ txt = <<"n", "u", "l", "l">>
  /\ val = MaxUint64
  /\ last.err = "nil"
  /\ dst = MaxUint64

\* the number a sequence of bytes spells, the first byte the most
\* significant
RECURSIVE BytesValue(_, _)
BytesValue(data, n) ==
  IF n = 0 THEN <<>>
  ELSE NAdd(NMulSmall(BytesValue(data, n - 1), 256), NatOf(data[n]))

\* C20: UnmarshalBinary of a BitCount, a ByteCount or a BitRate returns an
\* error and leaves the variable as it was for a payload that is not 8
\* bytes long (0 and 9 bytes included); for 8 bytes it returns no error and
\* stores the 64-bit value they spell, the first byte the most significant
\* (for a BitRate, the float64 with these bits).
C20_WrongLengthRejected ==
  last.op = "UnmarshalBinary"
  => /\ Len(txt) # 8 => (last.err # "nil" /\ dst = PriorOf(dom))
     /\ Len(txt) = 8 =>
          /\ last.err = "nil"
          /\ dom # "rate" => dst = BytesValue(txt, 8)
          /\ dom = "rate" =>
               \/ Float64bits(dst) = BytesValue(txt, 8)
               \/ /\ dst = FNaN
                  /\ txt[1] \in {127, 255} /\ txt[2] >= 240
                  /\ BytesValue(txt, 8) \notin {NShl(NatOf(2047), 52), NShl(NatOf(4095), 52)}

\* a payload of 9 bytes given to a BitRate
C20_Witness ==
  /\ last.op = "UnmarshalBinary"
  /\ dom = "rate"
  /\ txt = <<63, 240, 0, 0, 0, 0, 0, 0, 0>>
  /\ last.err = "invalid len"
  /\ dst = RatePrior

(***************************************************************************)
(* Properties: the atomic functions called by several goroutines.          *)
(***************************************************************************)
\* the goroutines whose call has returned
Done == {g \in Goroutines : gor[g].pc = "done"}

\* every goroutine calls fn with the same argument
SameCalls(fn) == \A g \in Goroutines : gor[g].fn = fn /\ gor[g].arg = gor[1].arg

\* n modulo 2^64, by taking 2^64 away until the rest is less
RECURSIVE Mod64(_)
Mod64(n) == IF NLt(n, NShl(One, 64)) THEN n ELSE Mod64(NSub(n, NShl(One, 64)))

\* (val + k * d) mod 2^64 for the common delta d
PartialSum(k) == Mod64(NAdd(val, NMulSmall(gor[1].arg, k)))

\* the orders in which the goroutines of D may have been served
OrdersOf(D) ==
  {f \in [1..Cardinality(D) -> D] : \A a, b \in 1..Cardinality(D) : f[a] = f[b] => a = b}

\* C21: when the goroutines each call AtomicAddBitCount (or
\* AtomicAddByteCount) once on the same address with the same delta d, then
\* after the calls of any n of them, in any interleaving, the variable holds
\* (v0 + n*d) mod 2^64 and the n returned values are the partial sums
\* (v0 + k*d) mod 2^64, k = 1..n, in some order; with all N served the
\* variable holds (v0 + N*d) mod 2^64.
C21_NoLostUpdate ==
  SameCalls("Add") =>
    /\ dst = PartialSum(Cardinality(Done))
    /\ \E f \in OrdersOf(Done) : \A k \in DOMAIN f : gor[f[k]].ret = PartialSum(k)

\* every goroutine has added 1 to a variable created with 2^64 - 1, which
\* wrapped around
C21_Witness ==
  /\ SameCalls("Add")
  /\ Done = Goroutines
  /\ gor[1].arg = One
  /\ val = MaxUint64
  /\ dst = NatOf(MaxGoroutines - 1)

\* (a - k * d) mod 2^64, by division
DifferenceMod(a, d, k) ==
  Mod64(NSub(NAdd(a, NMulSmall(NShl(One, 64), k)), NMulSmall(d, k)))

\* the value stored before the k-th call in the order f
StoredBefore(f, k) == IF k = 1 THEN val ELSE gor[f[k - 1]].ret

\* the value stored after the calls in the order f
StoredAfter(f) == IF DOMAIN f = {} THEN val ELSE gor[f[Cardinality(Done)]].ret

\* C22: AtomicSubBitCount / AtomicSubByteCount subtract modulo 2^64: for
\* every stored value v and every delta d (d = 0 and d > v included) the
\* call stores and returns (v - d) mod 2^64, the operand it adds being the
\* two's complement of d: the calls made so far have, in some order, each
\* returned the value stored before it less its delta, the variable holding
\* the last of these; and when every goroutine subtracts the same d, n calls
\* leave (v0 - n*d) mod 2^64.
C22_SubtractsModulo ==
  (\A g \in Goroutines : gor[g].fn = "Sub") =>
    /\ \E f \in OrdersOf(Done) :
         /\ \A k \in DOMAIN f :
              gor[f[k]].ret = DifferenceMod(StoredBefore(f, k), gor[f[k]].arg, 1)
         /\ dst = StoredAfter(f)
    /\ \A g \in Goroutines :
         SubOperand(gor[g].arg) = DifferenceMod(<<>>, gor[g].arg, 1)
    /\ SameCalls("Sub") => dst = DifferenceMod(val, gor[1].arg, Cardinality(Done))

\* every goroutine has subtracted 1 from a variable created with 0, which
\* wrapped around
C22_Witness ==
  /\ SameCalls("Sub")
  /\ Done = Goroutines
  /\ gor[1].arg = One
  /\ val = <<>>
  /\ dst = NSub(MaxUint64, NatOf(MaxGoroutines - 1))

\* the value given by the call before the k-th in the order f
GivenBefore(f, k) == IF k = 1 THEN val ELSE gor[f[k - 1]].arg

\* how many of the values returned, with the value left in the variable,
\* are x; and how many of the values given, with the initial value, are x
TimesOut(x) ==
  Cardinality({g \in Goroutines : gor[g].ret = x})
  + (IF ValueOf(dom, dst) = x THEN 1 ELSE 0)

TimesIn(x) ==
  Cardinality({g \in Goroutines : gor[g].arg = x}) + (IF val = x THEN 1 ELSE 0)

\* C30: when several goroutines each call AtomicSwapBitCount /
\* AtomicSwapByteCount / AtomicSwapBitRate once on the same address, in any
\* interleaving, there is a total order of the calls made in which every
\* call returned the value stored immediately before it, the variable
\* holding the value of the last; and once all have returned, the returned
\* values together with the final stored value are, counted with
\* multiplicity, the initial value together with all the new values.
C30_SwapLinearizable ==
  (\A g \in Goroutines : gor[g].fn = "Swap") =>
    /\ \E f \in OrdersOf(Done) :
         /\ \A k \in DOMAIN f : gor[f[k]].ret = GivenBefore(f, k)
         /\ ValueOf(dom, dst) = GivenBefore(f, Cardinality(Done) + 1)
    /\ Done = Goroutines => \A x \in AtomicValues(dom) : TimesOut(x) = TimesIn(x)

\* every goroutine has swapped a rate: some call got the initial value
\* back, and two of the new values differ
C30_Witness ==
  /\ dom = "rate"
  /\ Done = Goroutines
  /\ \E g \in Goroutines : gor[g].ret = val /\ gor[g].arg # val
  /\ \E g, h \in Goroutines : gor[g].arg # gor[h].arg /\ gor[g].ret = gor[h].arg

(***************************************************************************)
(* Properties: the count a rate transfers in a duration.                   *)
(***************************************************************************)
\* the product rate x duration of the last call, in bits and in the unit of
\* the count asked for
ProductBits == FMul(val, Seconds(last.d))

ProductCount ==
  IF last.kind = "byte" THEN FDiv(ProductBits, FFromNat(NatOf(8))) ELSE ProductBits

\* rate and duration of the last call are both negative
BothNegative == val.cls = "fin" /\ val.neg /\ ~FIsZero(val) /\ last.d.neg

\* rate and duration are of opposite sign, neither being zero
OppositeSigns ==
  /\ val.cls = "fin" /\ ~FIsZero(val) /\ last.d # DZero
  /\ val.neg # last.d.neg

\* the product is beyond 2^64 - 1, that is, 2^64 or more
ExceedsUint64 == val.cls = "fin" /\ ~FLt(ProductCount, FFromNat(NShl(One, 64)))

\* C23: BitRate.CalcBitCount / CalcByteCount fail with ErrOutOfRange and a
\* zero count when the rate is NaN or +/-Infinity, when the product is
\* negative (rate and duration of opposite sign), or when the product
\* exceeds the unsigned 64-bit range; when rate and duration are both
\* negative the signs cancel and the call succeeds with the positive
\* product.
C23_OutOfRangeOrProduct ==
  last.op = "CalcCount" =>
    /\ (val.cls # "fin" \/ OppositeSigns \/ ExceedsUint64) => last.r = OutOfRange
    /\ (BothNegative /\ ~ExceedsUint64) =>
         /\ last.r.err = "nil"
         /\ last.r.val = FTruncMag(ProductCount)

(***************************************************************************)
(* Properties: rates parsed from a text.                                   *)
(***************************************************************************)
\* the tier of a rate unit as it is spelled in full or in short: 0 the base
\* unit, 1..6 kilo..exa, 7..12 kibi..exbi; -1 for any other word
RateTierOfWord(w) ==
  CASE ToLower(w) \in {<<"b", "i", "t", "/", "s">>, <<"b", "p", "s">>, <<"b", "i", "t", " ", "p", "e", "r", " ", "s", "e", "c", "o", "n", "d">>, <<"b", "i", "t", "s", " ", "p", "e", "r", " ", "s", "e", "c">>} -> 0
    [] ToLower(w) \in {<<"k", "b", "i", "t", "/", "s">>, <<"k", "b", "p", "s">>, <<"k", "i", "l", "o", "b", "i", "t", "s", " ", "p", "e", "r", " ", "s", "e", "c", "o", "n", "d">>} -> 1
    [] ToLower(w) \in {<<"m", "b", "i", "t", "/", "s">>, <<"m", "e", "g", "a", "b", "i", "t", " ", "p", "e", "r", " ", "s", "e", "c">>} -> 2
    [] ToLower(w) \in {<<"k", "i", "b", "i", "t", "/", "s">>, <<"k", "i", "b", "p", "s">>, <<"k", "i", "b", "i", "b", "i", "t", "s", " ", "p", "e", "r", " ", "s", "e", "c", "o", "n", "d">>} -> 7
    [] ToLower(w) = <<"e", "i", "b", "i", "t", "/", "s">> -> 12
    [] OTHER -> 0 - 1

\* bits per second of one unit of tier k: SI prefixes count as binary ones
\* in the Binary variant
RateTierFactor(k, verb) ==
  IF k = 0 THEN One
  ELSE IF k > 6 THEN NPow(1024, k - 6)
  ELSE IF verb = "S" THEN NPow(1024, k)
  ELSE NPow(1000, k)

\* the numeral of the text is made of digits, with or without a fraction
PlainNumeral ==
  /\ txtBy.num # <<>>
  /\ \A i \in DOMAIN txtBy.num : txtBy.num[i] \in DigitSet \cup {"."}

TableOf(verb) == IF verb = "s" THEN siPrefix ELSE binPrefix

\* the unit of text t printed with the flags of by: what follows the
\* magnitude and the space
UnitOfText(t, by) ==
  SubSeq(t, RunLen(t, 1, DigitSet \cup {"."}) + (IF by.space THEN 2 ELSE 1), Len(t))

\* the word for the unit of tier k (0 the base unit) under the flags of by,
\* in the singular
TierWord(d, by, k) ==
  (IF k = 0 THEN <<>>
   ELSE IF by.full THEN TableOf(by.verb).preFull[k] ELSE TableOf(by.verb).preAbbr[k])
  \o (IF by.full THEN (IF d = "bit" THEN unitBitFull ELSE unitByteFull)
      ELSE (IF d = "bit" THEN unitBitAbbr ELSE unitByteAbbr))

\* the tiers text t is printed in
TiersOfText(t, d, by) ==
  {k \in 0..6 : UnitOfText(t, by) \in {TierWord(d, by, k), TierWord(d, by, k) \o <<"s">>}}

\* the specified scan: the thresholds from the largest to the smallest, the
\* first one that does not exceed v; 0 when every threshold exceeds v
RECURSIVE LargestTier(_, _, _)
LargestTier(p, v, i) ==
  IF i = 0 THEN 0
  ELSE IF NLe(p.thresholds[i], v) THEN i
  ELSE LargestTier(p, v, i - 1)

\* the thresholds of a table and the values just below them
TierMarks(p) ==
  Range(p.thresholds) \cup {NSub(p.thresholds[i], One) : i \in 1..6}

\* C25: formatUint uses the base unit iff v < thresholds[0], and otherwise
\* exactly one tier i with thresholds[i] <= v and (i is the last or
\* v < thresholds[i+1]); this is the tier the scan of the thresholds from
\* the largest to the smallest selects; and the tier does not decrease as
\* the value grows (compared here with the thresholds and the values just
\* below them, for the plain verb with precision 0).
C25_TierIsLargestThresholdBelow ==
  txtBy.by = "Format" =>
    \E k \in 0..6 :
      /\ TiersOfText(txt, dom, txtBy) = {k}
      /\ k = 0 <=> NLt(val, TableOf(txtBy.verb).thresholds[1])
      /\ k > 0 => NLe(TableOf(txtBy.verb).thresholds[k], val)
      /\ (k > 0 /\ k < 6) => NLt(val, TableOf(txtBy.verb).thresholds[k + 1])
      /\ k = LargestTier(TableOf(txtBy.verb), val, 6)
      /\ (txtBy.precision = 0 /\ ~txtBy.full /\ ~txtBy.space) =>
           \A w \in TierMarks(TableOf(txtBy.verb)) :
             \A j \in TiersOfText(Format(dom, w, txtBy.verb, 0, FALSE, FALSE), dom, txtBy) :
               /\ NLe(w, val) => j <= k
               /\ NLe(val, w) => j >= k

\* 1024^2 bytes printed with "%S" in the tier Mi, and 1024^2 - 1 in Ki
C25_Witness ==
  /\ txtBy.by = "Format"
  /\ txtBy.verb = "S"
  /\ dom = "byte"
  /\ \/ val = mebi /\ TiersOfText(txt, dom, txtBy) = {2}
     \/ val = NSub(mebi, One) /\ TiersOfText(txt, dom, txtBy) = {1}

\* the text of a whole number n printed with the precision prec: its
\* digits, and a point and prec zeros when prec > 0
WholeWithZeros(n, prec) ==
  FormatUint(n) \o (IF prec > 0 THEN <<".">> \o [i \in 1..prec |-> "0"] ELSE <<>>)

\* val lies in tier k (1..5) so close below the next threshold that its
\* magnitude, rounded to the precision, is the ratio of the tiers: the
\* distance to the threshold is less than half a unit of the last digit
RoundsToRatio(p, k, prec) ==
  /\ NLe(p.thresholds[k], val)
  /\ NLt(val, p.thresholds[k + 1])
  /\ NLt(NMul(NMulSmall(NSub(p.thresholds[k + 1], val), 2), NPow(10, prec)),
         p.thresholds[k])

\* C26: rounding never changes the unit: the tier Format prints a value in
\* is that of the value printed plainly (precision 0, no flag), whatever the
\* precision and the flags for full names and for the space; and a value
\* just below a threshold whose magnitude rounds up to the ratio of the
\* tiers is printed in the lower tier with that ratio as its magnitude
\* (999999 with "%.1s" is "1000.0k..."), not as 1 of the next prefix.
C26_RoundingKeepsTier ==
  txtBy.by = "Format" =>
    /\ TiersOfText(txt, dom, txtBy)
         = TiersOfText(Format(dom, val, txtBy.verb, 0, FALSE, FALSE), dom,
                       [txtBy EXCEPT !.full = FALSE, !.space = FALSE])
    /\ \A k \in 1..5 :
         (txtBy.precision >= 0 /\ RoundsToRatio(TableOf(txtBy.verb), k, txtBy.precision)) =>
           /\ TiersOfText(txt, dom, txtBy) = {k}
           /\ Magnitude = WholeWithZeros(TableOf(txtBy.verb).thresholds[1], txtBy.precision)

\* 999999 bits printed with "%.1s" as 1000.0kbit
C26_Witness ==
  /\ dom = "bit"
  /\ val = NSub(mega, One)
  /\ txtBy = [by |-> "Format", verb |-> "s", precision |-> 1, full |-> FALSE, space |-> FALSE]
  /\ txt = <<"1", "0", "0", "0", ".", "0", "k", "b", "i", "t">>

\* the words of s and the white space character before each: s is cut at
\* every white space character, so two of them in a row enclose an empty word
RECURSIVE SplitWords(_, _)
SplitWords(s, sep) ==
  <<[sep |-> sep, word |-> SubSeq(s, 1, RunLen(s, 1, NonSpace))]>>
  \o (IF RunLen(s, 1, NonSpace) = Len(s) THEN <<>>
      ELSE SplitWords(SubSeq(s, RunLen(s, 1, NonSpace) + 2, Len(s)),
                      <<s[RunLen(s, 1, NonSpace) + 1]>>))

\* the prefixes in the order of the tables of init(): 1..6 decimal, 7..12
\* binary, each abbreviated and in full
RatePrefixNames ==
  << {<<"k">>, <<"k", "i", "l", "o">>}, {<<"m">>, <<"m", "e", "g", "a">>}, {<<"g">>, <<"g", "i", "g", "a">>},
     {<<"t">>, <<"t", "e", "r", "a">>}, {<<"p">>, <<"p", "e", "t", "a">>}, {<<"e">>, <<"e", "x", "a">>},
     {<<"k", "i">>, <<"k", "i", "b", "i">>}, {<<"m", "i">>, <<"m", "e", "b", "i">>}, {<<"g", "i">>, <<"g", "i", "b", "i">>},
     {<<"t", "i">>, <<"t", "e", "b", "i">>}, {<<"p", "i">>, <<"p", "e", "b", "i">>}, {<<"e", "i">>, <<"e", "x", "b", "i">>} >>

\* the tier of a prefix among the names of at most n letters, -1 for none
PrefixTier(p, n) ==
  IF p = <<>> THEN 0
  ELSE IF \E k \in 1..12 : p \in RatePrefixNames[k] /\ Len(p) <= n
       THEN CHOOSE k \in 1..12 : p \in RatePrefixNames[k]
       ELSE 0 - 1

\* the tier of a compact spelling, "bps" or "bit/s" after an abbreviated
\* prefix, in any case of the letters; -1 when w is none
CompactTier(w) ==
  IF HasSuffix(ToLower(w), <<"b", "p", "s">>)
  THEN PrefixTier(SubSeq(ToLower(w), 1, Len(w) - 3), 2)
  ELSE IF HasSuffix(ToLower(w), <<"b", "i", "t", "/", "s">>)
  THEN PrefixTier(SubSeq(ToLower(w), 1, Len(w) - 5), 2)
  ELSE 0 - 1

\* the tier of a first word "bit" or "bits" after a prefix, abbreviated or
\* in full; -1 when w is none
WordTier(w) ==
  IF HasSuffix(ToLower(w), <<"b", "i", "t", "s">>)
  THEN PrefixTier(SubSeq(ToLower(w), 1, Len(w) - 4), 4)
  ELSE IF HasSuffix(ToLower(w), <<"b", "i", "t">>)
  THEN PrefixTier(SubSeq(ToLower(w), 1, Len(w) - 3), 4)
  ELSE 0 - 1

\* the j-th word of the unit text is the one the spelling has there: "per"
\* for the second, "sec" or "second" for the third
FollowerWord(j, w) ==
  IF j = 2 THEN ToLower(w) = <<"p", "e", "r">>
  ELSE ToLower(w) \in {<<"s", "e", "c">>, <<"s", "e", "c", "o", "n", "d">>}

\* the words 2..n of W follow one space each and are those of the spelling
Followers(W, n) ==
  /\ Len(W) >= n
  /\ \A j \in 2..n : W[j].sep = <<" ">> /\ FollowerWord(j, W[j].word)

\* the first j words of W joined by single spaces
RECURSIVE JoinWords(_, _)
JoinWords(W, j) ==
  IF j = 1 THEN W[1].word ELSE JoinWords(W, j - 1) \o <<" ">> \o W[j].word

\* Scan has read the j-th word of W (j = 2, 3): the words before it were
\* accepted and a non-empty word follows one space
WordRead(W, j) ==
  /\ Followers(W, j - 1)
  /\ Len(W) >= j
  /\ W[j].sep = <<" ">>
  /\ W[j].word # <<>>

\* a scan of a text whose numeral is well formed and whose unit token,
\* the first word of txtBy.unit, is made of letters and is no compact
\* spelling
ThreeTokenCase ==
  /\ dom = "rate"
  /\ last.op = "Scan"
  /\ txtBy.by = "caller"
  /\ txtBy.num # <<>>
  /\ \/ txtBy.sep = <<>>
     \/ txtBy.sep = <<" ">> /\ last.verb \in {"s", "S"}
  /\ SplitWords(txtBy.unit, <<>>)[1].word # <<>>
  /\ \A i \in 1..Len(SplitWords(txtBy.unit, <<>>)[1].word) :
       SplitWords(txtBy.unit, <<>>)[1].word[i] \in LetterSet \cup {"/"}
  /\ CompactTier(SplitWords(txtBy.unit, <<>>)[1].word) < 0

PointLiteral ==
  /\ txtBy.by = "caller"
  /\ \E i \in 1..Len(txtBy.num) : txtBy.num[i] = "."
  /\ \A i \in 1..Len(txtBy.num) : txtBy.num[i] \in DigitSet \cup {"."}

\* the digits of the numeral without the point, and the number of digits
\* after it: the numeral denotes DecimalOf(LiteralDigits) / 10^LiteralScale
LiteralDigits == SelectSeq(txtBy.num, LAMBDA c : c # ".")

LiteralScale == Len(txtBy.num) - RunLen(txtBy.num, 1, DigitSet) - 1

\* the integer nearest to n / d, a half going up
NearestHalfUp(n, d) == NDivMod(NAdd(NMulSmall(n, 2), d), NMulSmall(d, 2)).q

\* the integer nearest to the numeral times the factor of the unit
NearestToProduct ==
  NearestHalfUp(NMul(DecimalOf(LiteralDigits),
                     TierFactor(TierOfWord(dom, txtBy.unit), last.verb)),
                NPow(10, LiteralScale))

\* C28: a numeral with a decimal point and a unit above the base unit scans,
\* into a BitCount and into a ByteCount, as the integer nearest to the
\* numeral times the factor of the unit, an exact half going up to the next
\* integer ("220.5kB" is 220500, ".75 kB" is 750, "0.000567 megabytes" is
\* 567), and a product below one half as 0 with no error ("0.00001 kB").
C28_RoundsHalfAwayFromZero ==
  (/\ dom \in Doms
   /\ last.op = "Scan"
   /\ PointLiteral
   /\ \/ txtBy.sep = <<>>
      \/ txtBy.sep = <<" ">> /\ last.verb \in {"s", "S"}
   /\ TierOfWord(dom, txtBy.unit) > 0
   /\ NLe(NearestToProduct, MaxUint64)) =>
    /\ last.err = "nil"
    /\ dst = NearestToProduct

(***************************************************************************)
(* Properties: calls that fail to decode.                                  *)
(***************************************************************************)
\* the decoding calls that store through their receiver
DecodingOps == {"Scan", "UnmarshalText", "UnmarshalJSON", "UnmarshalYAML"}

====
